---- MODULE Spec2Model ----
(***************************************************************************)
(* A model of impeller/display_list/dl_dispatcher.cc: the DlDispatcher     *)
(* that replays display-list directives against an impeller Canvas.        *)
(*                                                                         *)
(* Scalars are kept exact: a colour channel or an opacity is the integer   *)
(* numerator of a fraction over 255 (so 255 is 1.0), a gradient stop is    *)
(* the numerator of a fraction over StopOne.                               *)
(* An optional value (std::optional, a nullable pointer) is a sequence of  *)
(* length 0 or 1.                                                          *)
(***************************************************************************)
EXTENDS Integers, Sequences, FiniteSets, TLC

VARIABLES
    paint,           \* DlDispatcher::paint_
    initial_matrix,  \* DlDispatcher::initial_matrix_
    canvas,          \* DlDispatcher::canvas_: its save stack
    frames,          \* the call stack: one entry per active drawDisplayList
    thrown,          \* an exception has left the dispatcher
    pending,         \* the descriptor the host passes next (optional)
    last,            \* history: the directive handled last, the canvas calls it made
    ghost            \* history: per replay level, the state and transform at its entry

vars == <<paint, initial_matrix, canvas, frames, thrown, pending, last, ghost>>

(***************************************************************************)
(* Bounds of the model.                                                    *)
(***************************************************************************)
MaxNest == 2
MaxSaveCount == 4
MaxTranslate == 1
MaxStops == 3
StopOne == 2
MaxRadius == 1
MaxFilterDepth == 2
MaxSamplers == 2

MaxSide == 2

MaxElevation == 3

MaxDpr == 2

MaxScale == 2

MaxPoints == 5

(***************************************************************************)
(* Colours.  A DlColor is its four 8-bit channels, alpha first; an         *)
(* impeller Color is four scalars.                                         *)
(***************************************************************************)
DlColor(a, r, g, b) == <<a, r, g, b>>

DlRed == DlColor(255, 255, 0, 0)

DlBlue == DlColor(255, 0, 0, 255)

getAlphaF(c) == c[1]

getRedF(c) == c[2]

getGreenF(c) == c[3]

getBlueF(c) == c[4]

Color(r, g, b, a) == [red |-> r, green |-> g, blue |-> b, alpha |-> a]

ToColor(c) == Color(getRedF(c), getGreenF(c), getBlueF(c), getAlphaF(c))

ColorBlack == Color(0, 0, 0, 255)

SK_Scalar1 == 255

(***************************************************************************)
(* The enum conversions.                                                   *)
(***************************************************************************)
ToBlendMode(mode) ==
    CASE mode = "DlBlendMode::kClear" -> "BlendMode::kClear"
      [] mode = "DlBlendMode::kSrc" -> "BlendMode::kSource"
      [] mode = "DlBlendMode::kDst" -> "BlendMode::kDestination"
      [] mode = "DlBlendMode::kSrcOver" -> "BlendMode::kSourceOver"
      [] mode = "DlBlendMode::kDstOver" -> "BlendMode::kDestinationOver"
      [] mode = "DlBlendMode::kSrcIn" -> "BlendMode::kSourceIn"
      [] mode = "DlBlendMode::kDstIn" -> "BlendMode::kDestinationIn"
      [] mode = "DlBlendMode::kSrcOut" -> "BlendMode::kSourceOut"
      [] mode = "DlBlendMode::kDstOut" -> "BlendMode::kDestinationOut"
      [] mode = "DlBlendMode::kSrcATop" -> "BlendMode::kSourceATop"
      [] mode = "DlBlendMode::kDstATop" -> "BlendMode::kDestinationATop"
      [] mode = "DlBlendMode::kXor" -> "BlendMode::kXor"
      [] mode = "DlBlendMode::kPlus" -> "BlendMode::kPlus"
      [] mode = "DlBlendMode::kModulate" -> "BlendMode::kModulate"
      [] mode = "DlBlendMode::kScreen" -> "BlendMode::kScreen"
      [] mode = "DlBlendMode::kOverlay" -> "BlendMode::kOverlay"
      [] mode = "DlBlendMode::kDarken" -> "BlendMode::kDarken"
      [] mode = "DlBlendMode::kLighten" -> "BlendMode::kLighten"
      [] mode = "DlBlendMode::kColorDodge" -> "BlendMode::kColorDodge"
      [] mode = "DlBlendMode::kColorBurn" -> "BlendMode::kColorBurn"
      [] mode = "DlBlendMode::kHardLight" -> "BlendMode::kHardLight"
      [] mode = "DlBlendMode::kSoftLight" -> "BlendMode::kSoftLight"
      [] mode = "DlBlendMode::kDifference" -> "BlendMode::kDifference"
      [] mode = "DlBlendMode::kExclusion" -> "BlendMode::kExclusion"
      [] mode = "DlBlendMode::kMultiply" -> "BlendMode::kMultiply"
      [] mode = "DlBlendMode::kHue" -> "BlendMode::kHue"
      [] mode = "DlBlendMode::kSaturation" -> "BlendMode::kSaturation"
      [] mode = "DlBlendMode::kColor" -> "BlendMode::kColor"
      [] mode = "DlBlendMode::kLuminosity" -> "BlendMode::kLuminosity"

(***************************************************************************)
(* Paint: the attribute bag.  Paint{} is the default-constructed value.    *)
(***************************************************************************)
NullProc == [k |-> "nullptr"]

MakeColor == [type |-> "kColor"]

Paint ==
    [color |-> ColorBlack,
     style |-> "kFill",
     color_source |-> MakeColor,
     image_filter |-> NullProc,
     dither |-> FALSE,
     stroke_width |-> 0,
     stroke_miter |-> 4,
     stroke_cap |-> "Cap::kButt",
     stroke_join |-> "Join::kMiter",
     color_filter |-> <<>>,
     invert_colors |-> FALSE,
     blend_mode |-> "BlendMode::kSourceOver",
     mask_blur_descriptor |-> <<>>]

(***************************************************************************)
(* Matrices, abstracted to what the dispatcher looks at: a scale and a     *)
(* translation on each axis, and whether the matrix has a perspective      *)
(* component.                                                              *)
(***************************************************************************)
Vector2(x, y) == [x |-> x, y |-> y]

Matrix == [sx |-> 1, sy |-> 1, tx |-> 0, ty |-> 0, persp |-> FALSE]

MakeTranslation(t) == [Matrix EXCEPT !.tx = t.x, !.ty = t.y]

MakeScale(s) == [Matrix EXCEPT !.sx = s.x, !.sy = s.y]

PerspectiveMatrix == [Matrix EXCEPT !.persp = TRUE]

Concat(a, b) ==
    [sx |-> a.sx * b.sx, sy |-> a.sy * b.sy,
     tx |-> a.tx + a.sx * b.tx, ty |-> a.ty + a.sy * b.ty,
     persp |-> a.persp \/ b.persp]

Abs(x) == IF x < 0 THEN 0 - x ELSE x

GetScale(m) == Vector2(Abs(m.sx), Abs(m.sy))

HasPerspective(m) == m.persp

SkMatrix(t, p) == [kMTransX |-> t, kMPersp |-> p]

ToMatrix(m) == [Matrix EXCEPT !.tx = m.kMTransX, !.persp = m.kMPersp]

ToPoint(pt) == [x |-> pt.fX, y |-> pt.fY]

ToTileMode(tile_mode) ==
    CASE tile_mode = "DlTileMode::kClamp" -> "TileMode::kClamp"
      [] tile_mode = "DlTileMode::kRepeat" -> "TileMode::kRepeat"
      [] tile_mode = "DlTileMode::kMirror" -> "TileMode::kMirror"
      [] tile_mode = "DlTileMode::kDecal" -> "TileMode::kDecal"

SamplerDescriptor ==
    [min_filter |-> "kNearest", mag_filter |-> "kNearest", mip_filter |-> "kNearest",
     label |-> "NN Clamp Sampler"]

ToSamplerDescriptor(options) ==
    CASE options = "kNearestNeighbor" ->
            [SamplerDescriptor EXCEPT !.min_filter = "kNearest", !.mag_filter = "kNearest",
                                      !.label = "Nearest Sampler"]
      [] options \in {"kLinear", "kCubic"} ->
            [SamplerDescriptor EXCEPT !.min_filter = "kLinear", !.mag_filter = "kLinear",
                                      !.label = "Linear Sampler"]
      [] options = "kMipmapLinear" ->
            [SamplerDescriptor EXCEPT !.min_filter = "kLinear", !.mag_filter = "kLinear",
                                      !.mip_filter = "kLinear",
                                      !.label = "Mipmap Linear Sampler"]

ToSamplerDescriptorOfFilterMode(options) ==
    CASE options = "kNearest" ->
            [SamplerDescriptor EXCEPT !.min_filter = "kNearest", !.mag_filter = "kNearest",
                                      !.label = "Nearest Sampler"]
      [] options = "kLinear" ->
            [SamplerDescriptor EXCEPT !.min_filter = "kLinear", !.mag_filter = "kLinear",
                                      !.label = "Linear Sampler"]
      [] OTHER -> SamplerDescriptor

(***************************************************************************)
(* Canvas: the collaborator.  Its save stack has one entry per scope; an   *)
(* entry holds the transform and the cull rectangle (optional).  A         *)
(* rectangle is the set of cells it covers.                                *)
(***************************************************************************)
Cells == {1, 2}

CanvasInitialize(cull) == << [xf |-> Matrix, cull |-> cull] >>

Top(c) == c[Len(c)]

SetTop(c, e) == [c EXCEPT ![Len(c)] = e]

GetSaveCount(c) == Len(c)

CanvasSave(c) == Append(c, Top(c))

CanvasSaveLayer(c, p) == Append(c, Top(c))

CanvasRestore(c) == IF Len(c) = 1 THEN c ELSE SubSeq(c, 1, Len(c) - 1)

RECURSIVE CanvasRestoreToCount(_, _)
CanvasRestoreToCount(c, count) ==
    IF GetSaveCount(c) > count /\ Len(c) > 1
    THEN CanvasRestoreToCount(CanvasRestore(c), count)
    ELSE c

GetCurrentTransformation(c) == Top(c).xf

CanvasTransform(c, m) == SetTop(c, [Top(c) EXCEPT !.xf = Concat(@, m)])

CanvasTranslate(c, t) == CanvasTransform(c, MakeTranslation(t))

CanvasScale(c, s) == CanvasTransform(c, MakeScale(s))

CanvasPreConcat(c, m) == CanvasTransform(c, m)

CanvasResetTransform(c) == SetTop(c, [Top(c) EXCEPT !.xf = Matrix])

GetCurrentLocalCullingBounds(c) ==
    IF Top(c).cull = <<>>
    THEN <<>>
    ELSE << [rect |-> Top(c).cull[1], local_to |-> Top(c).xf] >>

(***************************************************************************)
(* The directive handlers.  d is the dispatcher: its paint_, its           *)
(* initial_matrix_ and its canvas_ (the save stack), and d.calls lists the *)
(* Save, SaveLayer and Draw calls the handler has made on the canvas.      *)
(***************************************************************************)
setColor(d, color) ==
    [d EXCEPT !.paint.color =
        Color(getRedF(color), getGreenF(color), getBlueF(color), getAlphaF(color))]

save(d) == [d EXCEPT !.canvas = CanvasSave(@), !.calls = Append(@, [op |-> "Save"])]

saveLayer(d, renders_with_attributes) ==
    LET p == IF renders_with_attributes THEN d.paint ELSE Paint
    IN  [d EXCEPT !.canvas = CanvasSaveLayer(@, p),
                  !.calls = Append(@, [op |-> "SaveLayer", paint |-> p])]

restore(d) == [d EXCEPT !.canvas = CanvasRestore(@)]

translate(d, tx, ty) == [d EXCEPT !.canvas = CanvasTranslate(@, Vector2(tx, ty))]

scale(d, sx, sy) == [d EXCEPT !.canvas = CanvasScale(@, Vector2(sx, sy))]

transformFullPerspective(d, m) == [d EXCEPT !.canvas = CanvasTransform(@, m)]

transformReset_ToIdentity(d) == [d EXCEPT !.canvas = CanvasResetTransform(@)]

transformReset(d) ==
    [d EXCEPT !.canvas = CanvasTransform(CanvasResetTransform(@), d.initial_matrix)]

drawRect(d) == [d EXCEPT !.calls = Append(@, [op |-> "DrawRect", paint |-> d.paint])]

drawLine(d) ==
    LET p == [d.paint EXCEPT !.style = "kStroke"]
    IN  [d EXCEPT !.calls = Append(@, [op |-> "DrawPath", paint |-> p])]

(***************************************************************************)
(* The image draws.  image is the optional DlImage (sk_sp), its            *)
(* impeller_texture the optional texture; Image is the impeller Image made *)
(* of a texture.                                                           *)
(***************************************************************************)
Image(texture) == [texture |-> texture]

drawImageRect(d, image, sampling, render_with_attributes) ==
    [d EXCEPT !.calls = Append(@,
        [op |-> "DrawImageRect", image |-> Image(image[1].impeller_texture),
         paint |-> IF render_with_attributes THEN d.paint ELSE Paint,
         sampler |-> ToSamplerDescriptor(sampling)])]

drawImage(d, image, sampling, render_with_attributes) ==
    IF image = <<>>
    THEN d
    ELSE LET texture == image[1].impeller_texture
         IN  IF texture = <<>>
             THEN d
             ELSE drawImageRect(d, image, sampling, render_with_attributes)

drawImageNine(d, image, filter, render_with_attributes) ==
    [d EXCEPT !.calls = Append(@,
        [op |-> "DrawNinePatch", image |-> Image(image[1].impeller_texture),
         sampler |-> ToSamplerDescriptorOfFilterMode(filter), paint |-> d.paint])]

drawAtlas(d, atlas, mode, sampling, render_with_attributes) ==
    [d EXCEPT !.calls = Append(@,
        [op |-> "DrawAtlas", image |-> Image(atlas[1].impeller_texture),
         blend_mode |-> ToBlendMode(mode), sampler |-> ToSamplerDescriptor(sampling),
         paint |-> d.paint])]

(***************************************************************************)
(* Gradients.  ConvertStops fills the colors and stops vectors as the code *)
(* does: a leading entry, the entries of the gradient, a trailing entry    *)
(* that copies the back of the vectors built so far.                       *)
(***************************************************************************)
Back(v) == v[Len(v)]

ConvertStops_TailFromFirstColor(gradient) ==
    LET dl_colors == gradient.colors
        dl_stops == gradient.stops
        lead == dl_stops[1] # 0
        colors1 == (IF lead THEN <<ToColor(dl_colors[1])>> ELSE <<>>)
                     \o [i \in 1..gradient.stop_count |-> ToColor(dl_colors[i])]
        stops1 == (IF lead THEN <<0>> ELSE <<>>)
                     \o [i \in 1..gradient.stop_count |-> dl_stops[i]]
        tail == Back(stops1) # StopOne
    IN  [colors |-> IF tail THEN Append(colors1, colors1[1]) ELSE colors1,
         stops |-> IF tail THEN Append(stops1, StopOne) ELSE stops1]

ConvertStops(gradient) ==
    LET dl_colors == gradient.colors
        dl_stops == gradient.stops
        lead == dl_stops[1] # 0
        colors1 == (IF lead THEN <<ToColor(dl_colors[1])>> ELSE <<>>)
                     \o [i \in 1..gradient.stop_count |-> ToColor(dl_colors[i])]
        stops1 == (IF lead THEN <<0>> ELSE <<>>)
                     \o [i \in 1..gradient.stop_count |-> dl_stops[i]]
        tail == Back(stops1) # StopOne
    IN  [colors |-> IF tail THEN Append(colors1, Back(colors1)) ELSE colors1,
         stops |-> IF tail THEN Append(stops1, StopOne) ELSE stops1]

MakeLinearGradient(start_point, end_point, colors, stops, tile_mode, matrix) ==
    [type |-> "kLinearGradient", start_point |-> start_point, end_point |-> end_point,
     colors |-> colors, stops |-> stops, tile_mode |-> tile_mode,
     effect_transform |-> matrix]

MakeConicalGradient(center, radius, colors, stops, focus_center, focus_radius, tile_mode, matrix) ==
    [type |-> "kConicalGradient", center |-> center, radius |-> radius,
     colors |-> colors, stops |-> stops, focus_center |-> focus_center,
     focus_radius |-> focus_radius, tile_mode |-> tile_mode,
     effect_transform |-> matrix]

MakeRadialGradient(center, radius, colors, stops, tile_mode, matrix) ==
    [type |-> "kRadialGradient", center |-> center, radius |-> radius,
     colors |-> colors, stops |-> stops, tile_mode |-> tile_mode,
     effect_transform |-> matrix]

MakeSweepGradient(center, start_angle, end_angle, colors, stops, tile_mode, matrix) ==
    [type |-> "kSweepGradient", center |-> center, start_angle |-> start_angle,
     end_angle |-> end_angle, colors |-> colors, stops |-> stops,
     tile_mode |-> tile_mode, effect_transform |-> matrix]

MakeImage(texture, x_tile_mode, y_tile_mode, desc, matrix) ==
    [type |-> "kImage", texture |-> texture, x_tile_mode |-> x_tile_mode,
     y_tile_mode |-> y_tile_mode, sampler_descriptor |-> desc,
     effect_transform |-> matrix]

MakeRuntimeEffect(runtime_stage, uniform_data, texture_inputs) ==
    [type |-> "kRuntimeEffect", runtime_stage |-> runtime_stage,
     uniform_data |-> uniform_data, texture_inputs |-> texture_inputs]

(***************************************************************************)
(* The loop of the runtime effect case over the samplers: the texture      *)
(* inputs built (optional: none when the loop returned from the setter).   *)
(***************************************************************************)
asImage(sampler) == IF sampler[1].type = "kImage" THEN sampler ELSE <<>>

RECURSIVE TextureInputsFrom_SkippingMalformed(_, _, _)
TextureInputsFrom_SkippingMalformed(samplers, i, texture_inputs) ==
    IF i > Len(samplers)
    THEN << texture_inputs >>
    ELSE IF samplers[i] = <<>> \/ asImage(samplers[i]) = <<>>
         THEN TextureInputsFrom_SkippingMalformed(samplers, i + 1, texture_inputs)
         ELSE LET image == asImage(samplers[i])[1]
              IN  TextureInputsFrom_SkippingMalformed(samplers, i + 1,
                     Append(texture_inputs,
                            [sampler_descriptor |-> ToSamplerDescriptor(image.sampling),
                             texture |-> image.image.impeller_texture]))

RECURSIVE TextureInputsFrom(_, _, _)
TextureInputsFrom(samplers, i, texture_inputs) ==
    IF i > Len(samplers)
    THEN << texture_inputs >>
    ELSE IF samplers[i] = <<>>
         THEN <<>>
         ELSE IF asImage(samplers[i]) = <<>>
              THEN <<>>
              ELSE LET image == asImage(samplers[i])[1]
                   IN  TextureInputsFrom(samplers, i + 1,
                          Append(texture_inputs,
                                 [sampler_descriptor |-> ToSamplerDescriptor(image.sampling),
                                  texture |-> image.image.impeller_texture]))

(***************************************************************************)
(* setColorSource: source is the optional descriptor.                      *)
(***************************************************************************)
setColorSource(d, source) ==
    IF source = <<>>
    THEN [d EXCEPT !.paint.color_source = MakeColor]
    ELSE LET s == source[1]
             g == ConvertStops(s)
             tile_mode == ToTileMode(s.tile_mode)
             matrix == ToMatrix(s.matrix)
         IN  CASE s.type = "kColor" ->
                    setColor([d EXCEPT !.paint.color_source = MakeColor], s.color)
               [] s.type = "kLinearGradient" ->
                    [d EXCEPT !.paint.color_source =
                        MakeLinearGradient(ToPoint(s.start_point), ToPoint(s.end_point),
                                           g.colors, g.stops, tile_mode, matrix)]
               [] s.type = "kConicalGradient" ->
                    [d EXCEPT !.paint.color_source =
                        MakeConicalGradient(ToPoint(s.end_center), s.end_radius,
                                            g.colors, g.stops,
                                            ToPoint(s.start_center), s.start_radius,
                                            tile_mode, matrix)]
               [] s.type = "kRadialGradient" ->
                    [d EXCEPT !.paint.color_source =
                        MakeRadialGradient(ToPoint(s.center), s.radius,
                                           g.colors, g.stops, tile_mode, matrix)]
               [] s.type = "kSweepGradient" ->
                    [d EXCEPT !.paint.color_source =
                        MakeSweepGradient(ToPoint(s.center), s.start, s.end,
                                          g.colors, g.stops, tile_mode, matrix)]
               [] s.type = "kImage" ->
                    [d EXCEPT !.paint.color_source =
                        MakeImage(s.image.impeller_texture,
                                  ToTileMode(s.horizontal_tile_mode),
                                  ToTileMode(s.vertical_tile_mode),
                                  ToSamplerDescriptor(s.sampling), matrix)]
               [] s.type = "kRuntimeEffect" ->
                    LET texture_inputs == TextureInputsFrom(s.samplers, 1, <<>>)
                    IN  IF texture_inputs = <<>>
                        THEN d
                        ELSE [d EXCEPT !.paint.color_source =
                                 MakeRuntimeEffect(s.runtime_effect.runtime_stage,
                                                   s.uniform_data, texture_inputs[1])]

(***************************************************************************)
(* Colour filters: ToColorFilter of an optional descriptor is an optional  *)
(* impeller ColorFilter.                                                   *)
(***************************************************************************)
ToColorFilter(filter) ==
    IF filter = <<>>
    THEN <<>>
    ELSE LET f == filter[1]
         IN  CASE f.type = "kBlend" ->
                    << [type |-> "MakeBlend", blend_mode |-> ToBlendMode(f.mode),
                        color |-> ToColor(f.color)] >>
               [] f.type = "kMatrix" ->
                    << [type |-> "MakeMatrix", color_matrix |-> [array |-> f.matrix]] >>
               [] f.type = "kSrgbToLinearGamma" -> << [type |-> "MakeSrgbToLinear"] >>
               [] f.type = "kLinearToSrgbGamma" -> << [type |-> "MakeLinearToSrgb"] >>

(***************************************************************************)
(* Image filters.  An ImageFilterProc is a closure: the record of what it  *)
(* captured, tagged with the case of ToImageFilterProc that built it;      *)
(* NullProc is the empty std::function.                                    *)
(***************************************************************************)
Sigma(x) == [sigma |-> x]

Radius(x) == [radius |-> x]

MorphologyProc_BothNegative(morph_type, radius_x, radius_y) ==
    IF radius_x < 0 /\ radius_y < 0
    THEN NullProc
    ELSE [k |-> "morphology", radius_x |-> Radius(radius_x),
          radius_y |-> Radius(radius_y), morph_type |-> morph_type]

MorphologyProc(morph_type, radius_x, radius_y) ==
    IF radius_x < 0 \/ radius_y < 0
    THEN NullProc
    ELSE [k |-> "morphology", radius_x |-> Radius(radius_x),
          radius_y |-> Radius(radius_y), morph_type |-> morph_type]

ComposeProc_NullWithoutInner(outer_proc, inner_proc) ==
    IF inner_proc = NullProc THEN NullProc
    ELSE IF outer_proc = NullProc THEN inner_proc
    ELSE [k |-> "compose", outer_filter |-> outer_proc, inner_filter |-> inner_proc]

ComposeProc(outer_proc, inner_proc) ==
    IF outer_proc = NullProc THEN inner_proc
    ELSE IF inner_proc = NullProc THEN outer_proc
    ELSE [k |-> "compose", outer_filter |-> outer_proc, inner_filter |-> inner_proc]

LocalMatrixProc_IgnoringAbsence(matrix, image_filter_proc) ==
    IF image_filter_proc = NullProc
    THEN [k |-> "matrix", matrix |-> matrix, desc |-> SamplerDescriptor]
    ELSE [k |-> "local_matrix", matrix |-> matrix, filter_proc |-> image_filter_proc]

LocalMatrixProc(matrix, image_filter_proc) ==
    IF image_filter_proc = NullProc
    THEN NullProc
    ELSE [k |-> "local_matrix", matrix |-> matrix, filter_proc |-> image_filter_proc]

RECURSIVE ToImageFilterProc(_)
ToImageFilterProc(filter) ==
    IF filter = <<>>
    THEN NullProc
    ELSE LET f == filter[1]
         IN  CASE f.type = "kBlur" ->
                    [k |-> "blur", sigma_x |-> Sigma(f.sigma_x), sigma_y |-> Sigma(f.sigma_y),
                     tile_mode |-> ToTileMode(f.tile_mode)]
               [] f.type = "kDilate" -> MorphologyProc("kDilate", f.radius_x, f.radius_y)
               [] f.type = "kErode" -> MorphologyProc("kErode", f.radius_x, f.radius_y)
               [] f.type = "kMatrix" ->
                    [k |-> "matrix", matrix |-> ToMatrix(f.matrix),
                     desc |-> ToSamplerDescriptor(f.sampling)]
               [] f.type = "kCompose" ->
                    ComposeProc(ToImageFilterProc(f.outer), ToImageFilterProc(f.inner))
               [] f.type = "kColorFilter" ->
                    LET color_filter == ToColorFilter(f.color_filter)
                    IN  IF color_filter = <<>>
                        THEN NullProc
                        ELSE [k |-> "color_filter", filter |-> color_filter[1]]
               [] f.type = "kLocalMatrix" ->
                    LocalMatrixProc(ToMatrix(f.matrix), ToImageFilterProc(f.image_filter))

setImageFilter(d, filter) == [d EXCEPT !.paint.image_filter = ToImageFilterProc(filter)]

(***************************************************************************)
(* The other attribute setters.                                            *)
(***************************************************************************)
setDither(d, dither) == [d EXCEPT !.paint.dither = dither]

ToStyle(style) ==
    CASE style = "DlDrawStyle::kFill" -> "kFill"
      [] style = "DlDrawStyle::kStroke" -> "kStroke"
      [] style = "DlDrawStyle::kStrokeAndFill" -> "kFill"

setDrawStyle(d, style) == [d EXCEPT !.paint.style = ToStyle(style)]

setStrokeWidth(d, width) == [d EXCEPT !.paint.stroke_width = width]

setStrokeMiter(d, limit) == [d EXCEPT !.paint.stroke_miter = limit]

setStrokeCap(d, cap) ==
    [d EXCEPT !.paint.stroke_cap =
        CASE cap = "DlStrokeCap::kButt" -> "Cap::kButt"
          [] cap = "DlStrokeCap::kRound" -> "Cap::kRound"
          [] cap = "DlStrokeCap::kSquare" -> "Cap::kSquare"]

setStrokeJoin(d, join) ==
    [d EXCEPT !.paint.stroke_join =
        CASE join = "DlStrokeJoin::kMiter" -> "Join::kMiter"
          [] join = "DlStrokeJoin::kRound" -> "Join::kRound"
          [] join = "DlStrokeJoin::kBevel" -> "Join::kBevel"]

setColorFilter(d, filter) == [d EXCEPT !.paint.color_filter = ToColorFilter(filter)]

setInvertColors(d, invert) == [d EXCEPT !.paint.invert_colors = invert]

setBlendMode(d, dl_mode) == [d EXCEPT !.paint.blend_mode = ToBlendMode(dl_mode)]

ToBlurStyle(blur_style) ==
    CASE blur_style = "DlBlurStyle::kNormal" -> "BlurStyle::kNormal"
      [] blur_style = "DlBlurStyle::kSolid" -> "BlurStyle::kSolid"
      [] blur_style = "DlBlurStyle::kOuter" -> "BlurStyle::kOuter"
      [] blur_style = "DlBlurStyle::kInner" -> "BlurStyle::kInner"

setMaskFilter(d, filter) ==
    IF filter = <<>>
    THEN [d EXCEPT !.paint.mask_blur_descriptor = <<>>]
    ELSE IF filter[1].type = "kBlur"
         THEN [d EXCEPT !.paint.mask_blur_descriptor =
                  << [style |-> ToBlurStyle(filter[1].style),
                      sigma |-> Sigma(filter[1].sigma)] >>]
         ELSE d

(***************************************************************************)
(* The shape draws.  A path (SkPath) is a rect, a rounded rect (simple or  *)
(* not), an oval of some width and height, or none of these; isRect,       *)
(* isRRect and isOval are its own tests.  A canvas draw call is recorded   *)
(* with its name and its paint, and the shape where a claim looks at it.   *)
(***************************************************************************)
isRect(path) == path.kind = "rect"

isRRect(path) == path.kind = "rrect"

isSimple(rrect) == rrect.simple

isOval(path) == path.kind = "oval"

CanvasDraw(d, call) == [d EXCEPT !.calls = Append(@, call)]

drawColor(d, color, dl_mode) ==
    LET p == [Paint EXCEPT !.color = ToColor(color), !.blend_mode = ToBlendMode(dl_mode)]
    IN  CanvasDraw(d, [op |-> "DrawPaint", paint |-> p])

drawPaint(d) == CanvasDraw(d, [op |-> "DrawPaint", paint |-> d.paint])

drawOval(d, bounds) ==
    IF bounds.width = bounds.height
    THEN CanvasDraw(d, [op |-> "DrawCircle", paint |-> d.paint])
    ELSE CanvasDraw(d, [op |-> "DrawPath", paint |-> d.paint])

drawCircle(d) == CanvasDraw(d, [op |-> "DrawCircle", paint |-> d.paint])

drawRRect(d, rrect) ==
    IF isSimple(rrect)
    THEN CanvasDraw(d, [op |-> "DrawRRect", paint |-> d.paint])
    ELSE CanvasDraw(d, [op |-> "DrawPath", paint |-> d.paint])

drawDRRect(d) == CanvasDraw(d, [op |-> "DrawPath", paint |-> d.paint])

drawPath_CircleBeforeRRect(d, path) ==
    IF isRect(path)
    THEN CanvasDraw(d, [op |-> "DrawRect", paint |-> d.paint])
    ELSE IF isOval(path) \/ isRRect(path)
         THEN CanvasDraw(d, [op |-> "DrawCircle", paint |-> d.paint])
         ELSE CanvasDraw(d, [op |-> "DrawPath", paint |-> d.paint])

drawPath(d, path) ==
    IF isRect(path)
    THEN CanvasDraw(d, [op |-> "DrawRect", paint |-> d.paint])
    ELSE IF isRRect(path) /\ isSimple(path)
         THEN CanvasDraw(d, [op |-> "DrawRRect", paint |-> d.paint])
         ELSE IF isOval(path) /\ path.width = path.height
              THEN CanvasDraw(d, [op |-> "DrawCircle", paint |-> d.paint])
              ELSE CanvasDraw(d, [op |-> "DrawPath", paint |-> d.paint])

drawArc(d) == CanvasDraw(d, [op |-> "DrawPath", paint |-> d.paint])

LineOf(p0, p1, paint_) == [op |-> "DrawPath", p0 |-> p0, p1 |-> p1, paint |-> paint_]

RECURSIVE PointLines_Consecutive(_, _, _, _, _)
PointLines_Consecutive(d, paint_, i, count, points) ==
    IF i < count
    THEN LET p0 == ToPoint(points[i - 1])
             p1 == ToPoint(points[i])
         IN  PointLines_Consecutive(CanvasDraw(d, LineOf(p0, p1, paint_)), paint_,
                                    i + 1, count, points)
    ELSE d

RECURSIVE PointLines(_, _, _, _, _)
PointLines(d, paint_, i, count, points) ==
    IF i < count
    THEN LET p0 == ToPoint(points[i - 1])
             p1 == ToPoint(points[i])
         IN  PointLines(CanvasDraw(d, LineOf(p0, p1, paint_)), paint_, i + 2, count, points)
    ELSE d

RECURSIVE PointPolygon(_, _, _, _, _, _)
PointPolygon(d, paint_, p0, i, count, points) ==
    IF i < count
    THEN LET p1 == ToPoint(points[i])
         IN  PointPolygon(CanvasDraw(d, LineOf(p0, p1, paint_)), paint_, p1, i + 1,
                          count, points)
    ELSE d

ToPoints(points, count) == [i \in 0..(count - 1) |-> ToPoint(points[i])]

drawPoints(d, mode, count, points) ==
    LET p == [d.paint EXCEPT !.style = "kStroke"]
    IN  CASE mode = "PointMode::kPoints" ->
               LET point_style == IF p.stroke_cap = "Cap::kRound"
                                  THEN "PointStyle::kRound" ELSE "PointStyle::kSquare"
                   radius == IF p.stroke_width > 0
                             THEN [num |-> p.stroke_width, den |-> 2]
                             ELSE [num |-> p.stroke_width, den |-> 1]
               IN  CanvasDraw(d, [op |-> "DrawPoints", points |-> ToPoints(points, count),
                                  radius |-> radius, paint |-> p,
                                  point_style |-> point_style])
          [] mode = "PointMode::kLines" -> PointLines(d, p, 1, count, points)
          [] mode = "PointMode::kPolygon" ->
               IF count > 1
               THEN PointPolygon(d, p, ToPoint(points[0]), 1, count, points)
               ELSE d

drawVertices(d, dl_mode) ==
    CanvasDraw(d, [op |-> "DrawVertices", blend_mode |-> ToBlendMode(dl_mode),
                   paint |-> d.paint])

drawTextBlob(d, blob) ==
    LET maybe_text_frame == blob.text_frame
    IN  IF maybe_text_frame = <<>>
        THEN d
        ELSE IF d.paint.style = "kStroke" \/ d.paint.color_source.type # "kColor"
             THEN CanvasDraw(d, [op |-> "DrawPath", paint |-> d.paint])
             ELSE CanvasDraw(d, [op |-> "DrawTextFrame", paint |-> d.paint])

(***************************************************************************)
(* drawShadow.  A Scalar is an integer here; the quotient of two is kept   *)
(* as the pair of them, and is not a number when both are zero and         *)
(* infinite when only the divisor is.  The tonal colour is kept as a term  *)
(* of the occluder's colour.  Each canvas call of the shadow is recorded   *)
(* with the save depth and the transform it was made under.                *)
(***************************************************************************)
Quotient(n, m) ==
    IF m # 0 THEN [num |-> n, den |-> m]
    ELSE IF n = 0 THEN [nan |-> TRUE] ELSE [inf |-> TRUE, negative |-> n < 0]

TonalColor(spot_color) == [ComputeTonalColors |-> [spot_color EXCEPT !.alpha = [num |-> @, den |-> 4]]]

kLightRadius == 800 \div 600

ShadowDraw(c, d, call) ==
    CanvasDraw(d, call @@ [depth |-> GetSaveCount(c), xf |-> GetCurrentTransformation(c)])

drawShadow_UnbalancedSave(d, path, color, elevation, transparent_occluder, dpr) ==
    [d EXCEPT !.canvas = CanvasSave(@)]

drawShadow(d, path, color, elevation, transparent_occluder, dpr) ==
    LET spot_color == TonalColor(ToColor(color))
        light_position == [x |-> 0, y |-> 0 - 1, z |-> 1]
        occluder_z == dpr * elevation
        p == [Paint EXCEPT
                !.style = "kFill",
                !.color = spot_color,
                !.mask_blur_descriptor =
                   << [style |-> "BlurStyle::kNormal",
                       sigma |-> Radius(Quotient(kLightRadius * occluder_z,
                                     GetScale(GetCurrentTransformation(d.canvas)).y))] >>]
        saved == CanvasSave(d.canvas)
        moved == CanvasPreConcat(saved,
                     MakeTranslation(Vector2(0, (0 - occluder_z) * light_position.y)))
        drawn ==
            IF isRect(path)
            THEN ShadowDraw(moved, d, [op |-> "DrawRect", paint |-> p])
            ELSE IF isRRect(path) /\ isSimple(path)
                 THEN ShadowDraw(moved, d, [op |-> "DrawRRect", paint |-> p])
                 ELSE IF isOval(path) /\ path.width = path.height
                      THEN ShadowDraw(moved, d, [op |-> "DrawCircle", paint |-> p])
                      ELSE ShadowDraw(moved, d, [op |-> "DrawPath", paint |-> p])
    IN  [drawn EXCEPT !.canvas = CanvasRestore(moved)]

(***************************************************************************)
(* The bodies of the closures.  A call of a proc returns the contents it   *)
(* built and the calls of other procs it made, in order, each with its     *)
(* arguments and what it returned.                                         *)
(***************************************************************************)
FilterInputMake(contents) == [make |-> contents]

MakeGaussianBlur(input, sigma_x, sigma_y, blur_style, tile_mode, effect_transform) ==
    [contents |-> "GaussianBlur", input |-> input, sigma_x |-> sigma_x,
     sigma_y |-> sigma_y, blur_style |-> blur_style, tile_mode |-> tile_mode,
     effect_transform |-> effect_transform]

MakeMorphology(input, radius_x, radius_y, morph_type, effect_transform) ==
    [contents |-> "Morphology", input |-> input, radius_x |-> radius_x,
     radius_y |-> radius_y, morph_type |-> morph_type,
     effect_transform |-> effect_transform]

MakeMatrixFilter(input, matrix, desc, effect_transform, is_subpass) ==
    [contents |-> "MatrixFilter", input |-> input, matrix |-> matrix, desc |-> desc,
     effect_transform |-> effect_transform, is_subpass |-> is_subpass]

MakeLocalMatrixFilter(input, matrix) ==
    [contents |-> "LocalMatrixFilter", input |-> input, matrix |-> matrix]

WrapWithGPUColorFilter(filter, input, absorb_opacity) ==
    [contents |-> "ColorFilter", filter |-> filter, input |-> input,
     absorb_opacity |-> absorb_opacity]

LeafProc_AbsorbingOpacity(proc, input, effect_transform, is_subpass) ==
    CASE proc.k = "blur" ->
            MakeGaussianBlur(input, proc.sigma_x, proc.sigma_y, "kNormal",
                             proc.tile_mode, effect_transform)
      [] proc.k = "morphology" ->
            MakeMorphology(input, proc.radius_x, proc.radius_y, proc.morph_type,
                           effect_transform)
      [] proc.k = "matrix" ->
            MakeMatrixFilter(input, proc.matrix, proc.desc, effect_transform, is_subpass)
      [] proc.k = "color_filter" ->
            WrapWithGPUColorFilter(proc.filter, input, TRUE)

LeafProc(proc, input, effect_transform, is_subpass) ==
    CASE proc.k = "blur" ->
            MakeGaussianBlur(input, proc.sigma_x, proc.sigma_y, "kNormal",
                             proc.tile_mode, effect_transform)
      [] proc.k = "morphology" ->
            MakeMorphology(input, proc.radius_x, proc.radius_y, proc.morph_type,
                           effect_transform)
      [] proc.k = "matrix" ->
            MakeMatrixFilter(input, proc.matrix, proc.desc, effect_transform, is_subpass)
      [] proc.k = "color_filter" ->
            WrapWithGPUColorFilter(proc.filter, input, FALSE)

Called(proc, input, effect_transform, is_subpass, returned) ==
    [proc |-> proc, input |-> input, effect_transform |-> effect_transform,
     is_subpass |-> is_subpass, returned |-> returned]

RECURSIVE Invoke_OuterFirst(_, _, _, _)
Invoke_OuterFirst(proc, input, effect_transform, is_subpass) ==
    CASE proc.k = "compose" ->
            LET outer == Invoke_OuterFirst(proc.outer_filter, input,
                                           effect_transform, is_subpass)
                inner_input == FilterInputMake(outer.contents)
                inner == Invoke_OuterFirst(proc.inner_filter, inner_input,
                                           effect_transform, is_subpass)
            IN  [contents |-> inner.contents,
                 calls |-> << Called(proc.outer_filter, input, effect_transform,
                                     is_subpass, outer),
                              Called(proc.inner_filter, inner_input, effect_transform,
                                     is_subpass, inner) >>]
      [] proc.k = "local_matrix" ->
            LET filter == Invoke_OuterFirst(proc.filter_proc, input,
                                            effect_transform, is_subpass)
            IN  [contents |-> MakeLocalMatrixFilter(FilterInputMake(filter.contents),
                                                    proc.matrix),
                 calls |-> << Called(proc.filter_proc, input, effect_transform,
                                     is_subpass, filter) >>]
      [] OTHER ->
            [contents |-> LeafProc(proc, input, effect_transform, is_subpass),
             calls |-> <<>>]

RECURSIVE Invoke(_, _, _, _)
Invoke(proc, input, effect_transform, is_subpass) ==
    CASE proc.k = "compose" ->
            LET inner == Invoke(proc.inner_filter, input, effect_transform, is_subpass)
                outer_input == FilterInputMake(inner.contents)
                outer == Invoke(proc.outer_filter, outer_input,
                                effect_transform, is_subpass)
            IN  [contents |-> outer.contents,
                 calls |-> << Called(proc.inner_filter, input, effect_transform,
                                     is_subpass, inner),
                              Called(proc.outer_filter, outer_input, effect_transform,
                                     is_subpass, outer) >>]
      [] proc.k = "local_matrix" ->
            LET filter == Invoke(proc.filter_proc, input, effect_transform, is_subpass)
            IN  [contents |-> MakeLocalMatrixFilter(FilterInputMake(filter.contents),
                                                    proc.matrix),
                 calls |-> << Called(proc.filter_proc, input, effect_transform,
                                     is_subpass, filter) >>]
      [] OTHER ->
            [contents |-> LeafProc(proc, input, effect_transform, is_subpass),
             calls |-> <<>>]

(***************************************************************************)
(* drawDisplayList, the parts of its prologue: the paint the nested        *)
(* picture starts from, whether the opacity needs a layer, the paint of    *)
(* that layer, and the Dispatch call it makes (the list of its calls, each *)
(* the optional cull rectangle it passes).                                 *)
(***************************************************************************)
NestedPaint_Inherited(d) == d.paint

NestedPaint(d) == Paint

NeedsOpacityLayer_Always(opacity) == opacity <= SK_Scalar1

NeedsOpacityLayer(opacity) == opacity < SK_Scalar1

OpacityLayerPaint(opacity) == [Paint EXCEPT !.color = Color(0, 0, 0, opacity)]

DispatchCalls_IgnoringPerspective(has_rtree, m, cull_bounds) ==
    IF has_rtree
    THEN IF cull_bounds # <<>> THEN << <<cull_bounds[1]>> >> ELSE << <<>> >>
    ELSE << <<>> >>

DispatchCalls(has_rtree, m, cull_bounds) ==
    IF has_rtree /\ ~HasPerspective(m)
    THEN IF cull_bounds # <<>> THEN << <<cull_bounds[1]>> >> ELSE << <<>> >>
    ELSE << <<>> >>

(***************************************************************************)
(* drawDisplayList, up to its call of DisplayList::Dispatch: the result is *)
(* the dispatcher at the call, the three locals of the invocation, and the *)
(* Dispatch calls made.                                                    *)
(***************************************************************************)
drawDisplayList_Begin(d, has_rtree, opacity) ==
    LET saved_paint == d.paint
        saved_initial_matrix == d.initial_matrix
        restore_count == GetSaveCount(d.canvas)
        d1 == save(d)
        d2 == [d1 EXCEPT !.initial_matrix = GetCurrentTransformation(d1.canvas),
                         !.paint = NestedPaint(d1)]
        save_paint == OpacityLayerPaint(opacity)
        d3 == IF NeedsOpacityLayer(opacity)
              THEN [d2 EXCEPT !.canvas = CanvasSaveLayer(@, save_paint),
                              !.calls = Append(@, [op |-> "SaveLayer", paint |-> save_paint])]
              ELSE d2
    IN  [d |-> d3,
         saved_paint |-> saved_paint,
         saved_initial_matrix |-> saved_initial_matrix,
         restore_count |-> restore_count,
         dispatch |-> DispatchCalls(has_rtree, d3.initial_matrix,
                                    GetCurrentLocalCullingBounds(d3.canvas))]

(***************************************************************************)
(* drawDisplayList, from the return of DisplayList::Dispatch to its end.   *)
(***************************************************************************)
drawDisplayList_End_OneRestore(d, f) ==
    [d EXCEPT !.canvas = CanvasRestore(@),
              !.initial_matrix = f.saved_initial_matrix,
              !.paint = f.saved_paint]

drawDisplayList_End(d, f) ==
    [d EXCEPT !.canvas = CanvasRestoreToCount(@, f.restore_count),
              !.initial_matrix = f.saved_initial_matrix,
              !.paint = f.saved_paint]

(***************************************************************************)
(* The directives the host, or a display list being replayed, delivers.    *)
(***************************************************************************)
DlColors == {DlRed, DlBlue}

Opacities == {128, 255}

ConstructorCullRects == {<<>>, <<Cells>>}

SkPoint(x, y) == [fX |-> x, fY |-> y]

StopLists(n) ==
    {st \in [1..n -> 0..StopOne] : \A i \in 1..(n - 1) : st[i] <= st[i + 1]}

GradientKinds ==
    {[type |-> "kLinearGradient", start_point |-> SkPoint(0, 0), end_point |-> SkPoint(1, 1)],
     [type |-> "kRadialGradient", center |-> SkPoint(1, 0), radius |-> 1],
     [type |-> "kConicalGradient", start_center |-> SkPoint(0, 0), start_radius |-> 0,
      end_center |-> SkPoint(1, 1), end_radius |-> 1],
     [type |-> "kSweepGradient", center |-> SkPoint(0, 1), start |-> 0, end |-> 1]}

Gradients ==
    UNION {
      {k @@ [stop_count |-> n, colors |-> c, stops |-> st,
             tile_mode |-> "DlTileMode::kMirror", matrix |-> SkMatrix(1, FALSE)] :
         k \in GradientKinds, c \in [1..n -> DlColors], st \in StopLists(n)} :
      n \in 2..MaxStops}

DlMaskFilters ==
    {<<>>} \cup {<<[type |-> "kBlur", style |-> st, sigma |-> 2]>> :
                    st \in {"DlBlurStyle::kNormal", "DlBlurStyle::kSolid",
                            "DlBlurStyle::kOuter", "DlBlurStyle::kInner"}}

DlBlendModes == {"DlBlendMode::kClear", "DlBlendMode::kSrcOver", "DlBlendMode::kLuminosity"}

BusyPaint ==
    LET d1 == setColor([paint |-> Paint], DlRed)
        d2 == setDrawStyle(setDither(d1, TRUE), "DlDrawStyle::kStroke")
        d3 == setStrokeMiter(setStrokeWidth(d2, 3), 2)
        d4 == setStrokeJoin(setStrokeCap(d3, "DlStrokeCap::kRound"), "DlStrokeJoin::kBevel")
        d5 == setColorFilter(setInvertColors(d4, TRUE), <<[type |-> "kSrgbToLinearGamma"]>>)
        d6 == setMaskFilter(setBlendMode(d5, "DlBlendMode::kXor"),
                            <<[type |-> "kBlur", style |-> "DlBlurStyle::kOuter", sigma |-> 1]>>)
        d7 == setImageFilter(d6, <<[type |-> "kErode", radius_x |-> 1, radius_y |-> 1]>>)
    IN  d7.paint

SkRects == {[width |-> w, height |-> h] : w, h \in 1..MaxSide}

SkRRects == {[kind |-> "rrect", simple |-> simple] : simple \in BOOLEAN}

SkPaths ==
    {[kind |-> "rect"], [kind |-> "other"]}
      \cup SkRRects
      \cup {[kind |-> "oval", width |-> r.width, height |-> r.height] : r \in SkRects}

SkPoints(count) == [i \in 0..(count - 1) |-> SkPoint(i, 0 - i)]

PointModes == {"PointMode::kPoints", "PointMode::kLines", "PointMode::kPolygon"}

SkTextBlobs == {[text_frame |-> <<>>], [text_frame |-> <<"TextFrame">>]}

DlImages == {<<[impeller_texture |-> <<>>]>>, <<[impeller_texture |-> <<"texture">>]>>}

Radii == (0 - MaxRadius)..MaxRadius

DlBlurImageFilter ==
    [type |-> "kBlur", sigma_x |-> 1, sigma_y |-> 2, tile_mode |-> "DlTileMode::kDecal"]

DlMorphologyImageFilters ==
    {[type |-> t, radius_x |-> rx, radius_y |-> ry] :
        t \in {"kDilate", "kErode"}, rx \in Radii, ry \in Radii}

DlMatrixImageFilter ==
    [type |-> "kMatrix", matrix |-> SkMatrix(1, FALSE), sampling |-> "kCubic"]

ColorMatrixArray == [i \in 1..20 |-> IF i \in {1, 7, 13, 19} THEN 1 ELSE 0]

DlColorFilters ==
    {<<>>,
     <<[type |-> "kBlend", mode |-> "DlBlendMode::kSrcIn", color |-> DlRed]>>,
     <<[type |-> "kMatrix", matrix |-> ColorMatrixArray]>>,
     <<[type |-> "kSrgbToLinearGamma"]>>,
     <<[type |-> "kLinearToSrgbGamma"]>>}

DlColorFilterImageFilters == {[type |-> "kColorFilter", color_filter |-> cf] : cf \in DlColorFilters}

DlLeafImageFilters ==
    {DlBlurImageFilter, DlMatrixImageFilter}
        \cup DlMorphologyImageFilters \cup DlColorFilterImageFilters

DlLocalMatrixImageFilters ==
    {[type |-> "kLocalMatrix", matrix |-> SkMatrix(1, FALSE), image_filter |-> <<f>>] :
        f \in DlLeafImageFilters}

ComposeLeaves ==
    {<<>>,
     <<DlBlurImageFilter>>,
     <<[type |-> "kDilate", radius_x |-> 0 - 1, radius_y |-> 1]>>,
     <<[type |-> "kErode", radius_x |-> 1, radius_y |-> 1]>>}

RECURSIVE DlComposeTrees(_)
DlComposeTrees(depth) ==
    IF depth = 0
    THEN ComposeLeaves
    ELSE LET sub == DlComposeTrees(depth - 1)
         IN  ComposeLeaves \cup
             {<<[type |-> "kCompose", outer |-> o, inner |-> i]>> : o \in sub, i \in sub}

DlLocalMatrixOfTrees(depth) ==
    {<<[type |-> "kLocalMatrix", matrix |-> SkMatrix(1, FALSE), image_filter |-> t]>> :
        t \in DlComposeTrees(depth - 1) \ {<<>>}}

DlColorFilterTrees ==
    LET sides == {<<f>> : f \in DlColorFilterImageFilters \cup DlLocalMatrixImageFilters
                                   \cup {DlBlurImageFilter}}
        composed == {<<[type |-> "kCompose", outer |-> o, inner |-> i]>> :
                        o \in sides, i \in {<<f>> : f \in DlColorFilterImageFilters}}
    IN  composed \cup
        {<<[type |-> "kLocalMatrix", matrix |-> SkMatrix(0, FALSE), image_filter |-> c]>> :
            c \in composed}

ImageFilters(depth) ==
    DlComposeTrees(depth)
        \cup {<<f>> : f \in DlLeafImageFilters \cup DlLocalMatrixImageFilters}
        \cup DlLocalMatrixOfTrees(depth)
        \cup DlColorFilterTrees

DlImageColorSource ==
    [type |-> "kImage", image |-> [impeller_texture |-> "texture"],
     horizontal_tile_mode |-> "DlTileMode::kRepeat",
     vertical_tile_mode |-> "DlTileMode::kClamp",
     sampling |-> "kMipmapLinear", matrix |-> SkMatrix(1, FALSE)]

DlSamplers ==
    {<<>>, <<DlImageColorSource>>, <<[type |-> "kColor", color |-> DlBlue]>>}

DlSamplerLists == UNION {[1..n -> DlSamplers] : n \in 0..MaxSamplers}

DlRuntimeEffectColorSources ==
    {[type |-> "kRuntimeEffect", runtime_effect |-> [runtime_stage |-> "stage"],
      uniform_data |-> "uniforms", samplers |-> samplers] : samplers \in DlSamplerLists}

ColorSources ==
    {<<>>} \cup {<<[type |-> "kColor", color |-> c]>> : c \in DlColors}
           \cup {<<g>> : g \in Gradients}
           \cup {<<DlImageColorSource>>}
           \cup {<<r>> : r \in DlRuntimeEffectColorSources}

(***************************************************************************)
(* The dispatcher as one value, and the assignment of one.                 *)
(***************************************************************************)
Dispatcher ==
    [paint |-> paint, initial_matrix |-> initial_matrix, canvas |-> canvas, calls |-> <<>>]

Commit(d) ==
    /\ paint' = d.paint
    /\ initial_matrix' = d.initial_matrix
    /\ canvas' = d.canvas

Level == Len(frames)

Running == ~thrown

GhostTop == ghost[Len(ghost)]

GhostSet(g) == [ghost EXCEPT ![Len(ghost)] = g]

PreState ==
    [paint |-> paint, initial_matrix |-> initial_matrix, depth |-> GetSaveCount(canvas)]

(***************************************************************************)
(* The state after construction: DlDispatcher() or DlDispatcher(cull_rect).*)
(***************************************************************************)
Init ==
    /\ paint = Paint
    /\ initial_matrix = Matrix
    /\ \E cull \in ConstructorCullRects : canvas = CanvasInitialize(cull)
    /\ frames = <<>>
    /\ thrown = FALSE
    /\ pending = <<>>
    /\ last = [op |-> "DlDispatcher"]
    /\ ghost = << [pre |-> [paint |-> Paint, initial_matrix |-> Matrix, depth |-> 1],
                   expect |-> Paint, base |-> 1, xf |-> Matrix] >>

(***************************************************************************)
(* One action per directive.  A directive is delivered at the current      *)
(* replay level: by the host when no drawDisplayList is active, by         *)
(* DisplayList::Dispatch otherwise.                                        *)
(***************************************************************************)
SetColor ==
    /\ Running
    /\ \E color \in DlColors :
         /\ Commit(setColor(Dispatcher, color))
         /\ ghost' = GhostSet([GhostTop EXCEPT !.expect = setColor([paint |-> @], color).paint])
         /\ last' = [op |-> "directive"]
    /\ UNCHANGED <<pending, frames, thrown>>

SaveOp ==
    /\ Running
    /\ GetSaveCount(canvas) < MaxSaveCount
    /\ Commit(save(Dispatcher))
    /\ last' = [op |-> "directive"]
    /\ UNCHANGED <<pending, frames, thrown, ghost>>

SaveLayerOp ==
    /\ Running
    /\ GetSaveCount(canvas) < MaxSaveCount
    /\ \E renders_with_attributes \in BOOLEAN :
         /\ Commit(saveLayer(Dispatcher, renders_with_attributes))
         /\ last' = [op |-> "saveLayer",
                     calls |-> saveLayer(Dispatcher, renders_with_attributes).calls]
    /\ UNCHANGED <<pending, frames, thrown, ghost>>

RestoreOp ==
    /\ Running
    /\ Commit(restore(Dispatcher))
    /\ last' = [op |-> "directive"]
    /\ UNCHANGED <<pending, frames, thrown, ghost>>

TranslateOp ==
    /\ Running
    /\ GetCurrentTransformation(canvas).tx < MaxTranslate
    /\ Commit(translate(Dispatcher, 1, 0))
    /\ last' = [op |-> "directive"]
    /\ UNCHANGED <<pending, frames, thrown, ghost>>

TransformFullPerspectiveOp ==
    /\ Running
    /\ Commit(transformFullPerspective(Dispatcher, PerspectiveMatrix))
    /\ last' = [op |-> "directive"]
    /\ UNCHANGED <<pending, frames, thrown, ghost>>

TransformResetOp ==
    /\ Running
    /\ Commit(transformReset(Dispatcher))
    /\ last' = [op |-> "transformReset"]
    /\ UNCHANGED <<pending, frames, thrown, ghost>>

DrawRectOp ==
    /\ Running
    /\ Commit(drawRect(Dispatcher))
    /\ last' = [op |-> "drawRect", calls |-> drawRect(Dispatcher).calls,
                expect |-> GhostTop.expect]
    /\ UNCHANGED <<pending, frames, thrown, ghost>>

DrawLineOp ==
    /\ Running
    /\ Commit(drawLine(Dispatcher))
    /\ last' = [op |-> "drawLine", calls |-> drawLine(Dispatcher).calls,
                expect |-> GhostTop.expect]
    /\ UNCHANGED <<pending, frames, thrown, ghost>>

(***************************************************************************)
(* drawLine when the path it builds cannot be allocated: std::bad_alloc    *)
(* leaves the handler, and every active drawDisplayList below it, none of  *)
(* which catches it.                                                       *)
(***************************************************************************)
DrawLineThrows ==
    /\ Running
    /\ thrown' = TRUE
    /\ frames' = <<>>
    /\ ghost' = <<ghost[1]>>
    /\ last' = [op |-> "throw", unwound |-> [i \in 1..Level |-> ghost[i + 1].pre]]
    /\ UNCHANGED <<pending, paint, initial_matrix, canvas>>

(***************************************************************************)
(* drawDisplayList: its prologue runs up to the call of Dispatch, which    *)
(* delivers the nested directives to this same dispatcher; its epilogue    *)
(* runs when Dispatch returns.                                             *)
(***************************************************************************)
DrawDisplayListBegin ==
    /\ Running
    /\ Level < MaxNest
    /\ GetSaveCount(canvas) + 2 <= MaxSaveCount
    /\ \E has_rtree \in BOOLEAN, opacity \in Opacities :
         LET r == drawDisplayList_Begin(Dispatcher, has_rtree, opacity)
         IN  /\ Commit(r.d)
             /\ frames' = Append(frames,
                    [saved_paint |-> r.saved_paint,
                     saved_initial_matrix |-> r.saved_initial_matrix,
                     restore_count |-> r.restore_count])
             /\ ghost' = Append(ghost,
                    [pre |-> PreState, expect |-> Paint, base |-> GetSaveCount(r.d.canvas),
                     xf |-> GetCurrentTransformation(canvas)])
             /\ last' = [op |-> "drawDisplayList_Begin", pre |-> PreState,
                         opacity |-> opacity, has_rtree |-> has_rtree,
                         calls |-> r.d.calls, dispatch |-> r.dispatch]
    /\ UNCHANGED <<pending, thrown>>

DrawDisplayListEnd ==
    /\ Running
    /\ Level > 0
    /\ Commit(drawDisplayList_End(Dispatcher, frames[Level]))
    /\ frames' = SubSeq(frames, 1, Level - 1)
    /\ ghost' = SubSeq(ghost, 1, Level)
    /\ last' = [op |-> "drawDisplayList_End", pre |-> GhostTop.pre,
                base |-> GhostTop.base, depth |-> GetSaveCount(canvas)]
    /\ UNCHANGED <<pending, thrown>>

Next ==
    \/ SetColor
    \/ SaveOp
    \/ SaveLayerOp
    \/ RestoreOp
    \/ DrawRectOp
    \/ DrawLineOp
    \/ DrawLineThrows
    \/ DrawDisplayListBegin
    \/ DrawDisplayListEnd

Spec == Init /\ [][Next]_vars

(***************************************************************************)
(* The replay of pictures under the transforms and cull rectangles that    *)
(* decide the cull hint.                                                   *)
(***************************************************************************)
NextCull ==
    \/ TranslateOp
    \/ TransformFullPerspectiveOp
    \/ TransformResetOp
    \/ DrawDisplayListBegin
    \/ DrawDisplayListEnd

SpecCull == Init /\ [][NextCull]_vars

(***************************************************************************)
(* The attribute setters that build a value from a descriptor: the host    *)
(* holds a descriptor and passes it to the setter.                         *)
(***************************************************************************)
InitGradient ==
    /\ \E source \in {<<>>, <<DlImageColorSource>>} :
          paint = setColorSource([paint |-> Paint], source).paint
    /\ initial_matrix = Matrix
    /\ canvas = CanvasInitialize(<<>>)
    /\ frames = <<>>
    /\ thrown = FALSE
    /\ \E source \in ColorSources : pending = <<[op |-> "setColorSource", source |-> source]>>
    /\ last = [op |-> "DlDispatcher"]
    /\ ghost = << [pre |-> [paint |-> Paint, initial_matrix |-> Matrix, depth |-> 1],
                   expect |-> Paint, base |-> 1, xf |-> Matrix] >>

SetColorSourceOp ==
    /\ Running
    /\ pending # <<>>
    /\ pending[1].op = "setColorSource"
    /\ Commit(setColorSource(Dispatcher, pending[1].source))
    /\ pending' = <<>>
    /\ last' = [op |-> "setColorSource", source |-> pending[1].source, pre |-> paint]
    /\ UNCHANGED <<frames, thrown, ghost>>

NextGradient ==
    \/ SetColorSourceOp
    \/ SetColor

SpecGradient == InitGradient /\ [][NextGradient]_vars

(***************************************************************************)
(* setImageFilter on a paint that has no image filter or has one already,  *)
(* and the call of the proc it stored, as a draw makes it.                 *)
(***************************************************************************)
InitFilter ==
    /\ \E proc \in {NullProc, ToImageFilterProc(<<DlMatrixImageFilter>>)} :
          paint = [Paint EXCEPT !.image_filter = proc]
    /\ initial_matrix = Matrix
    /\ canvas = CanvasInitialize(<<>>)
    /\ frames = <<>>
    /\ thrown = FALSE
    /\ \E filter \in ImageFilters(MaxFilterDepth) : pending = <<[op |-> "setImageFilter", filter |-> filter]>>
    /\ last = [op |-> "DlDispatcher"]
    /\ ghost = << [pre |-> [paint |-> Paint, initial_matrix |-> Matrix, depth |-> 1],
                   expect |-> Paint, base |-> 1, xf |-> Matrix] >>

SetImageFilterOp ==
    /\ Running
    /\ pending # <<>>
    /\ pending[1].op = "setImageFilter"
    /\ Commit(setImageFilter(Dispatcher, pending[1].filter))
    /\ pending' = <<>>
    /\ last' = [op |-> "setImageFilter", filter |-> pending[1].filter, pre |-> paint]
    /\ UNCHANGED <<frames, thrown, ghost>>

InvokeImageFilter ==
    /\ Running
    /\ last.op = "setImageFilter"
    /\ paint.image_filter # NullProc
    /\ \E is_subpass \in BOOLEAN :
         LET snapshot == FilterInputMake([contents |-> "Snapshot"])
             effect_transform == MakeTranslation(Vector2(1, 0))
         IN  last' = [op |-> "image_filter", filter |-> last.filter,
                      input |-> snapshot, effect_transform |-> effect_transform,
                      is_subpass |-> is_subpass,
                      returned |-> Invoke(paint.image_filter, snapshot,
                                          effect_transform, is_subpass)]
    /\ UNCHANGED <<paint, initial_matrix, canvas, frames, thrown, pending, ghost>>

NextFilter ==
    \/ SetImageFilterOp
    \/ InvokeImageFilter

SpecFilter == InitFilter /\ [][NextFilter]_vars

(***************************************************************************)
(* The draw directives, under the paints and the save stacks the setters   *)
(* and save make.  Each records the state it started from and the canvas   *)
(* calls it made.                                                          *)
(***************************************************************************)
DrawPre == [paint |-> paint, initial_matrix |-> initial_matrix, canvas |-> canvas]

DrawImageOp ==
    /\ Running
    /\ \E image \in DlImages \cup {<<>>}, render_with_attributes \in BOOLEAN :
         LET d == drawImage(Dispatcher, image, "kLinear", render_with_attributes)
         IN  /\ Commit(d)
             /\ last' = [op |-> "drawImage", image |-> image, pre |-> DrawPre,
                         render_with_attributes |-> render_with_attributes,
                         calls |-> d.calls]
    /\ UNCHANGED <<pending, frames, thrown, ghost>>

DrawImageRectOp ==
    /\ Running
    /\ \E image \in DlImages, render_with_attributes \in BOOLEAN :
         LET d == drawImageRect(Dispatcher, image, "kLinear", render_with_attributes)
         IN  /\ Commit(d)
             /\ last' = [op |-> "drawImageRect", image |-> image, pre |-> DrawPre,
                         render_with_attributes |-> render_with_attributes,
                         calls |-> d.calls]
    /\ UNCHANGED <<pending, frames, thrown, ghost>>

DrawImageNineOp ==
    /\ Running
    /\ \E image \in DlImages, render_with_attributes \in BOOLEAN :
         LET d == drawImageNine(Dispatcher, image, "kLinear", render_with_attributes)
         IN  /\ Commit(d)
             /\ last' = [op |-> "drawImageNine", image |-> image, pre |-> DrawPre,
                         render_with_attributes |-> render_with_attributes,
                         calls |-> d.calls]
    /\ UNCHANGED <<pending, frames, thrown, ghost>>

DrawAtlasOp ==
    /\ Running
    /\ \E atlas \in DlImages, render_with_attributes \in BOOLEAN :
         LET d == drawAtlas(Dispatcher, atlas, "DlBlendMode::kSrcOver", "kLinear",
                            render_with_attributes)
         IN  /\ Commit(d)
             /\ last' = [op |-> "drawAtlas", image |-> atlas, pre |-> DrawPre,
                         render_with_attributes |-> render_with_attributes,
                         calls |-> d.calls]
    /\ UNCHANGED <<pending, frames, thrown, ghost>>

DrawColorOp ==
    /\ Running
    /\ \E color \in DlColors, dl_mode \in DlBlendModes :
         LET d == drawColor(Dispatcher, color, dl_mode)
         IN  /\ Commit(d)
             /\ last' = [op |-> "drawColor", pre |-> DrawPre, calls |-> d.calls, color |-> color, dl_mode |-> dl_mode]
    /\ UNCHANGED <<pending, frames, thrown, ghost>>

DrawPaintOp ==
    /\ Running
    /\ LET d == drawPaint(Dispatcher)
       IN  /\ Commit(d)
           /\ last' = [op |-> "drawPaint", pre |-> DrawPre, calls |-> d.calls]
    /\ UNCHANGED <<pending, frames, thrown, ghost>>

DrawLineTo ==
    /\ Running
    /\ LET d == drawLine(Dispatcher)
       IN  /\ Commit(d)
           /\ last' = [op |-> "drawLine", pre |-> DrawPre, calls |-> d.calls]
    /\ UNCHANGED <<pending, frames, thrown, ghost>>

DrawRectTo ==
    /\ Running
    /\ LET d == drawRect(Dispatcher)
       IN  /\ Commit(d)
           /\ last' = [op |-> "drawRect", pre |-> DrawPre, calls |-> d.calls]
    /\ UNCHANGED <<pending, frames, thrown, ghost>>

DrawOvalOp ==
    /\ Running
    /\ \E bounds \in SkRects :
         LET d == drawOval(Dispatcher, bounds)
         IN  /\ Commit(d)
             /\ last' = [op |-> "drawOval", pre |-> DrawPre, calls |-> d.calls, bounds |-> bounds]
    /\ UNCHANGED <<pending, frames, thrown, ghost>>

DrawCircleOp ==
    /\ Running
    /\ LET d == drawCircle(Dispatcher)
       IN  /\ Commit(d)
           /\ last' = [op |-> "drawCircle", pre |-> DrawPre, calls |-> d.calls]
    /\ UNCHANGED <<pending, frames, thrown, ghost>>

DrawRRectOp ==
    /\ Running
    /\ \E rrect \in SkRRects :
         LET d == drawRRect(Dispatcher, rrect)
         IN  /\ Commit(d)
             /\ last' = [op |-> "drawRRect", pre |-> DrawPre, calls |-> d.calls, rrect |-> rrect]
    /\ UNCHANGED <<pending, frames, thrown, ghost>>

DrawDRRectOp ==
    /\ Running
    /\ LET d == drawDRRect(Dispatcher)
       IN  /\ Commit(d)
           /\ last' = [op |-> "drawDRRect", pre |-> DrawPre, calls |-> d.calls]
    /\ UNCHANGED <<pending, frames, thrown, ghost>>

DrawPathOp ==
    /\ Running
    /\ \E path \in SkPaths :
         LET d == drawPath(Dispatcher, path)
         IN  /\ Commit(d)
             /\ last' = [op |-> "drawPath", pre |-> DrawPre, calls |-> d.calls, path |-> path]
    /\ UNCHANGED <<pending, frames, thrown, ghost>>

DrawArcOp ==
    /\ Running
    /\ LET d == drawArc(Dispatcher)
       IN  /\ Commit(d)
           /\ last' = [op |-> "drawArc", pre |-> DrawPre, calls |-> d.calls]
    /\ UNCHANGED <<pending, frames, thrown, ghost>>

DrawPointsOp ==
    /\ Running
    /\ \E mode \in PointModes, count \in 0..MaxPoints :
         LET d == drawPoints(Dispatcher, mode, count, SkPoints(count))
         IN  /\ Commit(d)
             /\ last' = [op |-> "drawPoints", pre |-> DrawPre, calls |-> d.calls,
                         mode |-> mode, count |-> count]
    /\ UNCHANGED <<pending, frames, thrown, ghost>>

DrawVerticesOp ==
    /\ Running
    /\ \E dl_mode \in DlBlendModes :
         LET d == drawVertices(Dispatcher, dl_mode)
         IN  /\ Commit(d)
             /\ last' = [op |-> "drawVertices", pre |-> DrawPre, calls |-> d.calls, dl_mode |-> dl_mode]
    /\ UNCHANGED <<pending, frames, thrown, ghost>>

DrawTextBlobOp ==
    /\ Running
    /\ \E blob \in SkTextBlobs :
         LET d == drawTextBlob(Dispatcher, blob)
         IN  /\ Commit(d)
             /\ last' = [op |-> "drawTextBlob", pre |-> DrawPre, calls |-> d.calls, blob |-> blob]
    /\ UNCHANGED <<pending, frames, thrown, ghost>>

DrawShadowOp ==
    /\ Running
    /\ \E path \in SkPaths, color \in DlColors, elevation \in {0, MaxElevation},
          transparent_occluder \in BOOLEAN, dpr \in 1..MaxDpr :
         LET d == drawShadow(Dispatcher, path, color, elevation, transparent_occluder, dpr)
         IN  /\ Commit(d)
             /\ last' = [op |-> "drawShadow", pre |-> DrawPre, calls |-> d.calls,
                         path |-> path, color |-> color, elevation |-> elevation,
                         dpr |-> dpr]
    /\ UNCHANGED <<pending, frames, thrown, ghost>>

ScaleOp ==
    /\ Running
    /\ \E sy \in {0, MaxScale} :
         /\ GetScale(GetCurrentTransformation(canvas)).y * sy <= MaxScale
         /\ Commit(scale(Dispatcher, 1, sy))
    /\ last' = [op |-> "directive"]
    /\ UNCHANGED <<pending, frames, thrown, ghost>>

SaveLayerTo ==
    /\ Running
    /\ GetSaveCount(canvas) < MaxSaveCount
    /\ \E renders_with_attributes \in BOOLEAN :
         LET d == saveLayer(Dispatcher, renders_with_attributes)
         IN  /\ Commit(d)
             /\ last' = [op |-> "saveLayer", pre |-> DrawPre, calls |-> d.calls,
                         render_with_attributes |-> renders_with_attributes]
    /\ UNCHANGED <<pending, frames, thrown, ghost>>

InitDraw ==
    /\ paint \in {Paint, BusyPaint, setColorSource([paint |-> Paint], <<DlImageColorSource>>).paint}
    /\ initial_matrix = Matrix
    /\ canvas = CanvasInitialize(<<Cells>>)
    /\ frames = <<>>
    /\ thrown = FALSE
    /\ pending = <<>>
    /\ last = [op |-> "DlDispatcher"]
    /\ ghost = << [pre |-> [paint |-> Paint, initial_matrix |-> Matrix, depth |-> 1],
                   expect |-> Paint, base |-> 1, xf |-> Matrix] >>

NextDraw ==
    \/ SetColor
    \/ SaveOp
    \/ DrawImageOp
    \/ DrawImageRectOp
    \/ DrawImageNineOp
    \/ DrawAtlasOp
    \/ DrawColorOp
    \/ DrawPaintOp
    \/ DrawLineTo
    \/ DrawRectTo
    \/ DrawOvalOp
    \/ DrawCircleOp
    \/ DrawRRectOp
    \/ DrawDRRectOp
    \/ DrawPathOp
    \/ DrawArcOp
    \/ DrawPointsOp
    \/ DrawVerticesOp
    \/ DrawTextBlobOp
    \/ DrawShadowOp
    \/ SaveLayerTo

SpecDraw == InitDraw /\ [][NextDraw]_vars

(***************************************************************************)
(* drawPath and drawShadow under the vertical scales that scale makes.     *)
(***************************************************************************)
NextShadow ==
    \/ ScaleOp
    \/ DrawPathOp
    \/ DrawShadowOp

SpecShadow == Init /\ [][NextShadow]_vars

(***************************************************************************)
(* drawPoints under every stroke cap and under stroke widths below, at and *)
(* above zero.                                                             *)
(***************************************************************************)
StrokedPaints ==
    {setStrokeWidth(setStrokeCap([paint |-> Paint], cap), width).paint :
        cap \in {"DlStrokeCap::kButt", "DlStrokeCap::kRound", "DlStrokeCap::kSquare"},
        width \in {0 - 1, 0, 3}}

InitPoints ==
    /\ paint \in StrokedPaints
    /\ initial_matrix = Matrix
    /\ canvas = CanvasInitialize(<<Cells>>)
    /\ frames = <<>>
    /\ thrown = FALSE
    /\ pending = <<>>
    /\ last = [op |-> "DlDispatcher"]
    /\ ghost = << [pre |-> [paint |-> Paint, initial_matrix |-> Matrix, depth |-> 1],
                   expect |-> Paint, base |-> 1, xf |-> Matrix] >>

NextPoints ==
    \/ SaveOp
    \/ DrawPointsOp

SpecPoints == InitPoints /\ [][NextPoints]_vars

(***************************************************************************)
(* Every attribute setter, on the default paint and on a paint with every  *)
(* attribute set.                                                          *)
(***************************************************************************)
SetterDirectives ==
    {[op |-> "setDither", arg |-> a] : a \in BOOLEAN}
      \cup {[op |-> "setDrawStyle", arg |-> a] :
               a \in {"DlDrawStyle::kFill", "DlDrawStyle::kStroke", "DlDrawStyle::kStrokeAndFill"}}
      \cup {[op |-> "setColor", arg |-> a] : a \in DlColors}
      \cup {[op |-> "setStrokeWidth", arg |-> a] : a \in {0, 3}}
      \cup {[op |-> "setStrokeMiter", arg |-> a] : a \in {1, 4}}
      \cup {[op |-> "setStrokeCap", arg |-> a] :
               a \in {"DlStrokeCap::kButt", "DlStrokeCap::kRound", "DlStrokeCap::kSquare"}}
      \cup {[op |-> "setStrokeJoin", arg |-> a] :
               a \in {"DlStrokeJoin::kMiter", "DlStrokeJoin::kRound", "DlStrokeJoin::kBevel"}}
      \cup {[op |-> "setColorSource", source |-> a] : a \in ColorSources}
      \cup {[op |-> "setColorFilter", arg |-> a] : a \in DlColorFilters}
      \cup {[op |-> "setInvertColors", arg |-> a] : a \in BOOLEAN}
      \cup {[op |-> "setBlendMode", arg |-> a] : a \in DlBlendModes}
      \cup {[op |-> "setMaskFilter", arg |-> a] : a \in DlMaskFilters}
      \cup {[op |-> "setImageFilter", filter |-> a] :
               a \in {<<>>} \cup {<<f>> : f \in DlLeafImageFilters}}

InitSetters ==
    /\ paint \in {Paint, BusyPaint}
    /\ initial_matrix = Matrix
    /\ canvas = CanvasInitialize(<<Cells>>)
    /\ frames = <<>>
    /\ thrown = FALSE
    /\ \E directive \in SetterDirectives : pending = <<directive>>
    /\ last = [op |-> "DlDispatcher"]
    /\ ghost = << [pre |-> [paint |-> Paint, initial_matrix |-> Matrix, depth |-> 1],
                   expect |-> Paint, base |-> 1, xf |-> Matrix] >>

Awaits(op) ==
    /\ Running
    /\ pending # <<>>
    /\ pending[1].op = op

Delivered ==
    /\ pending' = <<>>
    /\ last' = [op |-> pending[1].op, arg |-> pending[1].arg, pre |-> paint]
    /\ UNCHANGED <<frames, thrown, ghost>>

SetDitherOp ==
    /\ Awaits("setDither")
    /\ Commit(setDither(Dispatcher, pending[1].arg))
    /\ Delivered

SetDrawStyleOp ==
    /\ Awaits("setDrawStyle")
    /\ Commit(setDrawStyle(Dispatcher, pending[1].arg))
    /\ Delivered

SetColorOp ==
    /\ Awaits("setColor")
    /\ Commit(setColor(Dispatcher, pending[1].arg))
    /\ Delivered

SetStrokeWidthOp ==
    /\ Awaits("setStrokeWidth")
    /\ Commit(setStrokeWidth(Dispatcher, pending[1].arg))
    /\ Delivered

SetStrokeMiterOp ==
    /\ Awaits("setStrokeMiter")
    /\ Commit(setStrokeMiter(Dispatcher, pending[1].arg))
    /\ Delivered

SetStrokeCapOp ==
    /\ Awaits("setStrokeCap")
    /\ Commit(setStrokeCap(Dispatcher, pending[1].arg))
    /\ Delivered

SetStrokeJoinOp ==
    /\ Awaits("setStrokeJoin")
    /\ Commit(setStrokeJoin(Dispatcher, pending[1].arg))
    /\ Delivered

SetColorFilterOp ==
    /\ Awaits("setColorFilter")
    /\ Commit(setColorFilter(Dispatcher, pending[1].arg))
    /\ Delivered

SetInvertColorsOp ==
    /\ Awaits("setInvertColors")
    /\ Commit(setInvertColors(Dispatcher, pending[1].arg))
    /\ Delivered

SetBlendModeOp ==
    /\ Awaits("setBlendMode")
    /\ Commit(setBlendMode(Dispatcher, pending[1].arg))
    /\ Delivered

SetMaskFilterOp ==
    /\ Awaits("setMaskFilter")
    /\ Commit(setMaskFilter(Dispatcher, pending[1].arg))
    /\ Delivered

NextSetters ==
    \/ SetDitherOp
    \/ SetDrawStyleOp
    \/ SetColorOp
    \/ SetStrokeWidthOp
    \/ SetStrokeMiterOp
    \/ SetStrokeCapOp
    \/ SetStrokeJoinOp
    \/ SetColorFilterOp
    \/ SetInvertColorsOp
    \/ SetBlendModeOp
    \/ SetMaskFilterOp
    \/ SetColorSourceOp
    \/ SetImageFilterOp

SpecSetters == InitSetters /\ [][NextSetters]_vars

(***************************************************************************)
(* Properties of nested replay.                                            *)
(***************************************************************************)
Returned == last.op = "drawDisplayList_End"

Entered == last.op = "drawDisplayList_Begin"

\* C1: when drawDisplayList returns, the canvas save depth, the paint and the
\* initial matrix are what they were immediately before the call, whatever
\* the nested directives were.
C1_StateAsBeforeTheCall ==
    Returned =>
        /\ GetSaveCount(canvas) = last.pre.depth
        /\ paint = last.pre.paint
        /\ initial_matrix = last.pre.initial_matrix

\* C2: a drawRect is passed the paint made of the default paint and the
\* setters delivered so far at its own replay level (a drawLine that paint
\* with the stroke style), so nothing of the caller's paint shows inside a
\* nested picture, and the caller has its own paint back when
\* drawDisplayList returns.
C2_PaintIsolation ==
    /\ last.op = "drawRect" => last.calls = <<[op |-> "DrawRect", paint |-> last.expect]>>
    /\ last.op = "drawLine" =>
          last.calls = <<[op |-> "DrawPath",
                          paint |-> [last.expect EXCEPT !.style = "kStroke"]]>>
    /\ Returned => paint = last.pre.paint /\ paint = GhostTop.expect

\* The caller's paint is red and a rect inside the nested picture is drawn blue.
C2_Witness ==
    /\ last.op = "drawRect"
    /\ Level = 1
    /\ last.calls[1].paint.color = Color(0, 0, 255, 255)
    /\ frames[1].saved_paint.color = Color(255, 0, 0, 255)

\* C3: when the nested directives leave k >= 0 scopes open above the depth
\* at which their replay started, drawDisplayList returns with the canvas at
\* the depth D it had before the call.
C3_RestoresToRecordedDepth ==
    (Returned /\ last.depth >= last.base) => GetSaveCount(canvas) = last.pre.depth

\* Two scopes pushed by an opacity below 1.0, one more left open by the
\* nested directives, and the caller's depth is back.
C3_Witness ==
    /\ Returned
    /\ last.base = last.pre.depth + 2
    /\ last.depth > last.base
    /\ GetSaveCount(canvas) = last.pre.depth

\* C4: however the replay of a nested picture ends, by Dispatch returning or
\* by an exception leaving it, the invocation restores the canvas to the
\* recorded depth and the paint and initial matrix to the snapshot.
RestoredTo(pre) ==
    /\ GetSaveCount(canvas) <= pre.depth
    /\ paint = pre.paint
    /\ initial_matrix = pre.initial_matrix

C4_RestoredOnEveryExit ==
    /\ Returned => RestoredTo(last.pre)
    /\ last.op = "throw" => \A i \in DOMAIN last.unwound : RestoredTo(last.unwound[i])

\* C5: drawDisplayList pushes one plain save scope and, exactly when the
\* opacity is below 1.0, one save-layer whose paint is the default paint with
\* the colour black at alpha = opacity; the nested directives start at depth
\* D + 2 or D + 1.
C5_GroupOpacity ==
    Entered =>
        LET layer == [op |-> "SaveLayer",
                      paint |-> [Paint EXCEPT !.color =
                                    [red |-> 0, green |-> 0, blue |-> 0,
                                     alpha |-> last.opacity]]]
        IN  IF last.opacity < 255
            THEN /\ last.calls = <<[op |-> "Save"], layer>>
                 /\ GetSaveCount(canvas) = last.pre.depth + 2
            ELSE /\ last.calls = <<[op |-> "Save"]>>
                 /\ GetSaveCount(canvas) = last.pre.depth + 1

\* A caller whose paint is not the default one draws a picture at half opacity.
C5_Witness ==
    /\ Entered
    /\ last.opacity = 128
    /\ last.pre.paint # Paint
    /\ Len(last.calls) = 2
    /\ GetSaveCount(canvas) = last.pre.depth + 2

\* C6, as stated: a picture with an rtree under a transform without
\* perspective is replayed with the canvas's local culling rectangle as cull
\* hint, any other unconstrained, and each exactly once.
C6_CullHintWheneverRtreeAndNoPerspective ==
    Entered =>
        /\ Len(last.dispatch) = 1
        /\ IF last.has_rtree /\ ~HasPerspective(GetCurrentTransformation(canvas))
           THEN /\ last.dispatch[1] # <<>>
                /\ last.dispatch[1] = GetCurrentLocalCullingBounds(canvas)
           ELSE last.dispatch[1] = <<>>

\* C6, amended: the cull hint is passed when, besides, the canvas has a
\* local culling rectangle; without one the replay is unconstrained.
C6_CullHint ==
    Entered =>
        /\ Len(last.dispatch) = 1
        /\ IF /\ last.has_rtree
              /\ ~HasPerspective(GetCurrentTransformation(canvas))
              /\ GetCurrentLocalCullingBounds(canvas) # <<>>
           THEN last.dispatch[1] = GetCurrentLocalCullingBounds(canvas)
           ELSE last.dispatch[1] = <<>>

\* A picture with an rtree replayed under a translation, with the canvas's
\* culling rectangle taken into that translated space.
C6_Witness ==
    /\ Entered
    /\ last.has_rtree
    /\ last.dispatch = << << [rect |-> Cells, local_to |-> MakeTranslation(Vector2(1, 0))] >> >>

(***************************************************************************)
(* Properties of the gradient setters.                                     *)
(***************************************************************************)
IsGradient(source) ==
    /\ source # <<>>
    /\ source[1].type \in {"kLinearGradient", "kRadialGradient",
                           "kConicalGradient", "kSweepGradient"}

Pairs(colors, stops) == [i \in 1..Len(colors) |-> <<colors[i], stops[i]>>]

\* C7: for a gradient of n >= 2 (colour, stop) pairs with non-decreasing
\* stops in [0,1], of any of the four kinds, the colour source set has the
\* pairs [(first colour, 0) if the first stop is not 0] ++ input ++ [(last
\* colour, 1) if the last stop is not 1]: it starts at stop 0, ends at stop 1,
\* has n, n+1 or n+2 entries, as many colours as stops, and is the input when
\* the input is normalized already.
C7_ConvertStops ==
    (last.op = "setColorSource" /\ IsGradient(last.source)) =>
        LET g == last.source[1]
            n == g.stop_count
            given == Pairs([i \in 1..n |-> ToColor(g.colors[i])], g.stops)
            head == IF g.stops[1] # 0 THEN << <<ToColor(g.colors[1]), 0>> >> ELSE <<>>
            tail == IF g.stops[n] # StopOne
                    THEN << <<ToColor(g.colors[n]), StopOne>> >> ELSE <<>>
            out == paint.color_source
        IN  /\ out.type = g.type
            /\ Len(out.colors) = Len(out.stops)
            /\ Pairs(out.colors, out.stops) = head \o given \o tail
            /\ out.stops[1] = 0
            /\ out.stops[Len(out.stops)] = StopOne
            /\ Len(out.stops) \in {n, n + 1, n + 2}
            /\ (g.stops[1] = 0 /\ g.stops[n] = StopOne) =>
                   Pairs(out.colors, out.stops) = given

\* A sweep gradient from red at 1/2 to blue at 1/2 gets both a leading red
\* and a trailing blue entry.
C7_Witness ==
    /\ last.op = "setColorSource"
    /\ IsGradient(last.source)
    /\ last.source[1].type = "kSweepGradient"
    /\ last.source[1].colors = <<DlRed, DlBlue>>
    /\ last.source[1].stops = <<1, 1>>
    /\ paint.color_source.stops = <<0, 1, 1, StopOne>>
    /\ paint.color_source.colors[4] = Color(0, 0, 255, 255)

(***************************************************************************)
(* Properties of the image filter procs.                                   *)
(***************************************************************************)
IsA(filter, type) == filter # <<>> /\ filter[1].type = type

RECURSIVE ComposeNodes(_)
ComposeNodes(filter) ==
    IF IsA(filter, "kCompose")
    THEN {filter} \cup ComposeNodes(filter[1].outer) \cup ComposeNodes(filter[1].inner)
    ELSE {}

ComposeIdentity(built, outer_proc, inner_proc) ==
    /\ outer_proc = NullProc => built = inner_proc
    /\ inner_proc = NullProc => built = outer_proc
    /\ (outer_proc = NullProc /\ inner_proc = NullProc) => built = NullProc

\* C8: setImageFilter with Compose(outer, inner) stores inner's proc when
\* outer builds to no proc, outer's proc when inner builds to no proc, and no
\* proc when neither builds to one; and so does every Compose inside it.
C8_ComposeIdentity ==
    (last.op = "setImageFilter" /\ IsA(last.filter, "kCompose")) =>
        /\ ComposeIdentity(paint.image_filter,
                           ToImageFilterProc(last.filter[1].outer),
                           ToImageFilterProc(last.filter[1].inner))
        /\ \A c \in ComposeNodes(last.filter) :
              ComposeIdentity(ToImageFilterProc(c),
                              ToImageFilterProc(c[1].outer),
                              ToImageFilterProc(c[1].inner))

\* The outer filter is a Compose of a dilate of negative radius over nothing,
\* the inner one a blur: the proc stored is the blur's.
C8_Witness ==
    /\ last.op = "setImageFilter"
    /\ IsA(last.filter, "kCompose")
    /\ IsA(last.filter[1].outer, "kCompose")
    /\ IsA(last.filter[1].outer[1].outer, "kDilate")
    /\ last.filter[1].outer[1].inner = <<>>
    /\ last.filter[1].inner = <<DlBlurImageFilter>>
    /\ paint.image_filter = ToImageFilterProc(<<DlBlurImageFilter>>)
    /\ paint.image_filter # NullProc

\* C9: a call of a composed proc calls the inner proc on its input, then the
\* outer proc on what the inner one returned, made a filter input, and
\* returns what the outer one returned; each is called once, with the effect
\* transform and the is_subpass flag of the call.
C9_ComposeOrder ==
    (last.op = "image_filter" /\ paint.image_filter.k = "compose") =>
        LET proc == paint.image_filter
            calls == last.returned.calls
        IN  /\ Len(calls) = 2
            /\ calls[1].proc = proc.inner_filter
            /\ calls[1].input = last.input
            /\ calls[2].proc = proc.outer_filter
            /\ calls[2].input = FilterInputMake(calls[1].returned.contents)
            /\ last.returned.contents = calls[2].returned.contents
            /\ \A i \in 1..2 :
                  /\ calls[i].effect_transform = last.effect_transform
                  /\ calls[i].is_subpass = last.is_subpass

\* An erode composed over a blur: the contents returned are the morphology
\* of the blur of the snapshot.
C9_Witness ==
    /\ last.op = "image_filter"
    /\ last.is_subpass
    /\ paint.image_filter.k = "compose"
    /\ last.returned.contents.contents = "Morphology"
    /\ last.returned.contents.input.make.contents = "GaussianBlur"
    /\ last.returned.contents.input.make.input = last.input

\* C10: setImageFilter with a dilate or an erode leaves the paint without an
\* image filter when radius_x < 0 or radius_y < 0, and with one when both
\* are >= 0; no exception leaves it.
C10_NegativeRadius ==
    (last.op = "setImageFilter" /\ (IsA(last.filter, "kDilate") \/ IsA(last.filter, "kErode"))) =>
        LET f == last.filter[1]
        IN  /\ (f.radius_x < 0 \/ f.radius_y < 0) => paint.image_filter = NullProc
            /\ (f.radius_x >= 0 /\ f.radius_y >= 0) => paint.image_filter # NullProc
            /\ ~thrown

\* An erode with radius_x = 1 and radius_y = -1 has left the paint without
\* an image filter.
C10_Witness ==
    /\ last.op = "setImageFilter"
    /\ IsA(last.filter, "kErode")
    /\ last.filter[1].radius_x = 1
    /\ last.filter[1].radius_y = 0 - 1
    /\ paint.image_filter = NullProc
    /\ ~thrown

\* C11: setImageFilter with LocalMatrix(matrix, inner) leaves the paint
\* without an image filter whenever inner builds to no proc; otherwise the
\* proc stored calls inner's proc on its input, once and with its own
\* arguments, and returns a local-matrix node of the given matrix over what
\* that call returned.
C11_LocalMatrix ==
    /\ (last.op = "setImageFilter" /\ IsA(last.filter, "kLocalMatrix")) =>
          LET inner == ToImageFilterProc(last.filter[1].image_filter)
          IN  IF inner = NullProc
              THEN paint.image_filter = NullProc
              ELSE /\ paint.image_filter.k = "local_matrix"
                   /\ paint.image_filter.filter_proc = inner
    /\ (last.op = "image_filter" /\ IsA(last.filter, "kLocalMatrix")) =>
          LET calls == last.returned.calls
          IN  /\ Len(calls) = 1
              /\ calls[1].proc = ToImageFilterProc(last.filter[1].image_filter)
              /\ calls[1].input = last.input
              /\ calls[1].effect_transform = last.effect_transform
              /\ calls[1].is_subpass = last.is_subpass
              /\ last.returned.contents =
                    [contents |-> "LocalMatrixFilter",
                     input |-> [make |-> calls[1].returned.contents],
                     matrix |-> [sx |-> 1, sy |-> 1,
                                 tx |-> last.filter[1].matrix.kMTransX, ty |-> 0,
                                 persp |-> last.filter[1].matrix.kMPersp]]

\* The inner filter is a Compose of a dilate of negative radius and nothing,
\* and the paint has no image filter.
C11_Witness ==
    /\ last.op = "setImageFilter"
    /\ IsA(last.filter, "kLocalMatrix")
    /\ IsA(last.filter[1].image_filter, "kCompose")
    /\ IsA(last.filter[1].image_filter[1].outer, "kDilate")
    /\ last.filter[1].image_filter[1].inner = <<>>
    /\ paint.image_filter = NullProc

RECURSIVE ColorFilterNodes(_)
ColorFilterNodes(contents) ==
    IF contents.contents = "Snapshot"
    THEN {}
    ELSE (IF contents.contents = "ColorFilter" THEN {contents} ELSE {})
            \cup ColorFilterNodes(contents.input.make)

RECURSIVE ColorFilterCount(_)
ColorFilterCount(filter) ==
    IF filter = <<>> THEN 0
    ELSE CASE filter[1].type = "kColorFilter" ->
                 IF ToImageFilterProc(filter) = NullProc THEN 0 ELSE 1
           [] filter[1].type = "kCompose" ->
                 ColorFilterCount(filter[1].outer) + ColorFilterCount(filter[1].inner)
           [] filter[1].type = "kLocalMatrix" -> ColorFilterCount(filter[1].image_filter)
           [] OTHER -> 0

\* C12: whatever image filter was set, every colour-filter node in the
\* contents its proc returns was wrapped with absorb_opacity false, and there
\* is such a node whenever the descriptor holds a colour filter of any of
\* the four kinds, at any place of a Compose or LocalMatrix tree.
C12_ColorFilterAbsorbOpacity ==
    last.op = "image_filter" =>
        LET nodes == ColorFilterNodes(last.returned.contents)
        IN  /\ \A n \in nodes : n.absorb_opacity = FALSE
            /\ ColorFilterCount(last.filter) > 0 => nodes # {}

\* A matrix colour filter and a linear-to-sRGB colour filter composed inside
\* a LocalMatrix: two colour-filter nodes in the contents.
C12_Witness ==
    /\ last.op = "image_filter"
    /\ IsA(last.filter, "kLocalMatrix")
    /\ IsA(last.filter[1].image_filter, "kCompose")
    /\ \E n \in ColorFilterNodes(last.returned.contents) : n.filter.type = "MakeMatrix"
    /\ \E n \in ColorFilterNodes(last.returned.contents) : n.filter.type = "MakeLinearToSrgb"
    /\ \A n \in ColorFilterNodes(last.returned.contents) : ~n.absorb_opacity

\* C13: setColorSource with a runtime effect whose sampler list has, at any
\* place, a null entry or a sampler that is not an image leaves the whole
\* paint as it was; and a runtime effect stored holds one texture input for
\* each sampler of the list, never a part of them.
C13_MalformedRuntimeEffect ==
    (last.op = "setColorSource" /\ IsA(last.source, "kRuntimeEffect")) =>
        LET samplers == last.source[1].samplers
            malformed == \E i \in DOMAIN samplers :
                            samplers[i] = <<>> \/ samplers[i][1].type # "kImage"
        IN  IF malformed
            THEN paint = last.pre
            ELSE /\ paint.color_source.type = "kRuntimeEffect"
                 /\ Len(paint.color_source.texture_inputs) = Len(samplers)

\* The first sampler is an image, the second is null: the paint, blue with
\* an image colour source, is as before.
C13_Witness ==
    /\ last.op = "setColorSource"
    /\ IsA(last.source, "kRuntimeEffect")
    /\ Len(last.source[1].samplers) = 2
    /\ last.source[1].samplers[1] = <<DlImageColorSource>>
    /\ last.source[1].samplers[2] = <<>>
    /\ last.pre.color_source.type = "kImage"
    /\ last.pre.color = Color(0, 0, 255, 255)
    /\ paint = last.pre

(***************************************************************************)
(* Properties of the draw directives.                                      *)
(***************************************************************************)
StateAsBefore ==
    /\ paint = last.pre.paint
    /\ initial_matrix = last.pre.initial_matrix
    /\ canvas = last.pre.canvas

\* C14: drawImage, drawImageRect, drawImageNine and drawAtlas with an image
\* that has no texture make no call on the canvas and leave the dispatcher
\* as it was.
C14_NoTextureNoDraw ==
    (/\ last.op \in {"drawImage", "drawImageRect", "drawImageNine", "drawAtlas"}
     /\ last.image # <<>>
     /\ last.image[1].impeller_texture = <<>>) =>
        /\ last.calls = <<>>
        /\ StateAsBefore

(***************************************************************************)
(* Properties of the attribute setters.                                    *)
(***************************************************************************)
SetterField ==
    [setDither |-> "dither", setDrawStyle |-> "style", setColor |-> "color",
     setStrokeWidth |-> "stroke_width", setStrokeMiter |-> "stroke_miter",
     setStrokeCap |-> "stroke_cap", setStrokeJoin |-> "stroke_join",
     setColorSource |-> "color_source", setColorFilter |-> "color_filter",
     setInvertColors |-> "invert_colors", setBlendMode |-> "blend_mode",
     setMaskFilter |-> "mask_blur_descriptor", setImageFilter |-> "image_filter"]

KeepsAllBut(fields) ==
    /\ \A f \in DOMAIN paint \ fields : paint'[f] = paint[f]
    /\ initial_matrix' = initial_matrix
    /\ canvas' = canvas

\* C15, as stated: a setter changes no field of the paint but its own, nor
\* the initial matrix, nor the canvas, whatever its argument.
C15_SetterReplacesOnlyItsField ==
    [][last'.op \in DOMAIN SetterField => KeepsAllBut({SetterField[last'.op]})]_vars

(***************************************************************************)
(* Properties of drawShadow.                                               *)
(***************************************************************************)
ShadowSigma == last.calls[1].paint.mask_blur_descriptor[1].sigma.radius

VerticalScale == GetScale(GetCurrentTransformation(last.pre.canvas)).y

SameScalar(a, b) ==
    /\ "num" \in DOMAIN a
    /\ a.den # 0
    /\ a.num * b.den = b.num * a.den

\* C16: under a vertical scale that is not zero, the sigma of the shadow's
\* mask blur is 4/3 of dpr * elevation, divided by the vertical scale.
C16_SigmaOfLightRadius ==
    (last.op = "drawShadow" /\ VerticalScale # 0) =>
        SameScalar(ShadowSigma,
                   [num |-> 4 * last.dpr * last.elevation, den |-> 3 * VerticalScale])

\* C17: a shadow of elevation 0 has a mask blur of sigma 0 and is drawn
\* under the transform the canvas had, whatever the vertical scale.
C17_ZeroElevation ==
    (last.op = "drawShadow" /\ last.elevation = 0) =>
        /\ SameScalar(ShadowSigma, [num |-> 0, den |-> 1])
        /\ last.calls[1].xf = GetCurrentTransformation(last.pre.canvas)

Primitive(path) ==
    IF path.kind = "rect" THEN "DrawRect"
    ELSE IF path.kind = "rrect" /\ path.simple THEN "DrawRRect"
    ELSE IF path.kind = "oval" /\ path.width = path.height THEN "DrawCircle"
    ELSE "DrawPath"

\* C18: drawPath and drawShadow each make one draw call on the canvas:
\* DrawRect for a rect, else DrawRRect for a simple rounded rect, else
\* DrawCircle for an oval as wide as high, else DrawPath; and for the path
\* just drawn the two of them choose the same call.
C18_ShapePriority ==
    last.op \in {"drawPath", "drawShadow"} =>
        /\ Len(last.calls) = 1
        /\ last.calls[1].op = Primitive(last.path)
        /\ drawPath(Dispatcher, last.path).calls[1].op =
              drawShadow(Dispatcher, last.path, DlRed, 0, FALSE, 1).calls[1].op

\* drawShadow has drawn a rounded rect that is not simple with DrawPath.
C18_Witness ==
    /\ last.op = "drawShadow"
    /\ last.path = [kind |-> "rrect", simple |-> FALSE]
    /\ last.calls[1].op = "DrawPath"

(***************************************************************************)
(* Properties of transformReset.                                           *)
(***************************************************************************)
\* C19: after a transformReset the transform of the canvas is the one the
\* canvas had when the innermost drawDisplayList now replaying was entered
\* (the identity of the constructor when none is), whatever transforms the
\* stream applied before.
C19_ResetToBaseline ==
    last.op = "transformReset" => GetCurrentTransformation(canvas) = GhostTop.xf

\* A transformReset two pictures deep, where the baseline is neither the
\* identity nor the baseline of the picture around it.
C19_Witness ==
    /\ last.op = "transformReset"
    /\ Level = 2
    /\ GetCurrentTransformation(canvas) = GhostTop.xf
    /\ GhostTop.xf # Matrix
    /\ GhostTop.xf # ghost[2].xf
    /\ ghost[2].xf # Matrix

(***************************************************************************)
(* Properties of the draw directives.                                      *)
(***************************************************************************)
DrawDirectives ==
    {"drawColor", "drawPaint", "drawLine", "drawRect", "drawOval", "drawCircle",
     "drawRRect", "drawDRRect", "drawPath", "drawArc", "drawPoints", "drawVertices",
     "drawImage", "drawImageRect", "drawImageNine", "drawAtlas", "drawTextBlob",
     "drawShadow"}

\* C20: a draw directive other than drawDisplayList leaves the paint, the
\* initial matrix and the save depth of the canvas as they were.  drawLine
\* and drawPoints draw with a copy of the paint made stroked, drawColor
\* with a fresh paint of its colour and blend mode, drawShadow with a fresh
\* filled paint, one save deeper and under the transform moved down by
\* dpr * elevation; after drawShadow the canvas is as it was.
C20_DrawsKeepState ==
    last.op \in DrawDirectives =>
        /\ paint = last.pre.paint
        /\ initial_matrix = last.pre.initial_matrix
        /\ GetSaveCount(canvas) = GetSaveCount(last.pre.canvas)
        /\ last.op \in {"drawLine", "drawPoints"} =>
              \A i \in DOMAIN last.calls :
                  last.calls[i].paint = [last.pre.paint EXCEPT !.style = "kStroke"]
        /\ last.op = "drawColor" =>
              last.calls[1].paint = [Paint EXCEPT !.color = ToColor(last.color),
                                                 !.blend_mode = ToBlendMode(last.dl_mode)]
        /\ last.op = "drawShadow" =>
              /\ canvas = last.pre.canvas
              /\ last.calls[1].paint.style = "kFill"
              /\ last.calls[1].depth = GetSaveCount(last.pre.canvas) + 1
              /\ last.calls[1].xf =
                    Concat(GetCurrentTransformation(last.pre.canvas),
                           MakeTranslation(Vector2(0, last.dpr * last.elevation)))

\* A shadow of some elevation drawn one save deep with a stroked paint that
\* has every attribute set: the paint and the two saves are as they were.
C20_Witness ==
    /\ last.op = "drawShadow"
    /\ last.elevation = MaxElevation
    /\ last.pre.paint = BusyPaint
    /\ paint = BusyPaint
    /\ GetSaveCount(canvas) = 2
    /\ last.calls[1].depth = 3

(***************************************************************************)
(* Properties of drawPoints.                                               *)
(***************************************************************************)
PointAt(i) == [x |-> i, y |-> 0 - i]

Stroked == [last.pre.paint EXCEPT !.style = "kStroke"]

\* C21: drawPoints of count points draws with a stroked copy of the paint.
\* As points it makes one DrawPoints call of all the points, round when the
\* stroke cap is round and square otherwise, of radius half the stroke
\* width when that is above zero and the stroke width otherwise.  As lines
\* it makes count div 2 line draws, the k-th from point 2k-2 to point 2k-1.
\* As a polygon it makes count - 1 line draws, the k-th from point k-1 to
\* point k, and none when count is at most 1.
C21_DrawPoints ==
    last.op = "drawPoints" =>
        LET calls == last.calls
            cap == last.pre.paint.stroke_cap
            width == last.pre.paint.stroke_width
        IN  /\ \A k \in DOMAIN calls : calls[k].paint = Stroked
            /\ last.mode = "PointMode::kPoints" =>
                  /\ Len(calls) = 1
                  /\ calls[1].op = "DrawPoints"
                  /\ calls[1].points = [i \in 0..(last.count - 1) |-> PointAt(i)]
                  /\ (calls[1].point_style = "PointStyle::kRound") = (cap = "Cap::kRound")
                  /\ calls[1].point_style \in {"PointStyle::kRound", "PointStyle::kSquare"}
                  /\ SameScalar(calls[1].radius,
                                IF width > 0 THEN [num |-> width, den |-> 2]
                                             ELSE [num |-> width, den |-> 1])
            /\ last.mode = "PointMode::kLines" =>
                  /\ Len(calls) = last.count \div 2
                  /\ \A k \in DOMAIN calls :
                        /\ calls[k].op = "DrawPath"
                        /\ calls[k].p0 = PointAt(2 * k - 2)
                        /\ calls[k].p1 = PointAt(2 * k - 1)
            /\ last.mode = "PointMode::kPolygon" =>
                  /\ Len(calls) = IF last.count > 1 THEN last.count - 1 ELSE 0
                  /\ \A k \in DOMAIN calls :
                        /\ calls[k].op = "DrawPath"
                        /\ calls[k].p0 = PointAt(k - 1)
                        /\ calls[k].p1 = PointAt(k)

\* Five points drawn as lines with a square cap: two line draws, the second
\* from point 2 to point 3, and the fifth point in none.
C21_Witness ==
    /\ last.op = "drawPoints"
    /\ last.mode = "PointMode::kLines"
    /\ last.count = 5
    /\ last.pre.paint.stroke_cap = "Cap::kSquare"
    /\ Len(last.calls) = 2
    /\ last.calls[2].p0 = PointAt(2)
    /\ last.calls[2].p1 = PointAt(3)

(***************************************************************************)
(* Properties of the render-with-attributes flag.                          *)
(***************************************************************************)
\* C22: saveLayer, drawImage, drawImageRect, drawImageNine and drawAtlas
\* hand the canvas the paint of the dispatcher when their flag is true and
\* the default paint when it is false.
C22_RenderWithAttributes ==
    last.op \in {"saveLayer", "drawImage", "drawImageRect", "drawImageNine", "drawAtlas"} =>
        \A k \in DOMAIN last.calls :
            last.calls[k].paint =
                IF last.render_with_attributes THEN last.pre.paint ELSE Paint

====
